---- MODULE Spec2Model ----
(***************************************************************************)
(* Progress aggregation and points distribution of user_management_x:      *)
(* daily update -> module recompute -> project recompute -> completion ->  *)
(* points distribution -> per-user statistics.                             *)
(*                                                                         *)
(* Requests are processed one at a time (each action is one whole request, *)
(* mongoose post-save hooks included).  Time is a logical clock whose unit *)
(* is one calendar day; 0 stands for an unset date.  An optional request   *)
(* field is a set with at most one element ({} = undefined).               *)
(***************************************************************************)
EXTENDS Integers, Sequences, FiniteSets, TLC

\* ------------------------------------------------------------------ bounds
MaxTime == 2
MaxUpdates == 2
MaxCascadeUpdates == 1
MaxFailures == 1
MaxInflight == 2
MaxTokens == 2
MaxHistory == 3
MaxMonths == 2
DaysPerMonth == 2
RefreshLifetime == 1

\* -------------------------------------------------------- program constants
DefaultBasePoints == 100
ProjectDeadline == 2

\* ------------------------------------------------------------ small domains
Leads == {"l1", "l2"}
Members == {"u1", "u2"}
Users == Leads \cup Members
ModuleOrder == <<"m1", "m2">>
ModuleIds == {ModuleOrder[i] : i \in 1..Len(ModuleOrder)}

\* ----------------------------------------------------------------- helpers
None == {}

Some(x) == {x}

Val(o) == CHOOSE v \in o : TRUE

Min(a, b) == IF a <= b THEN a ELSE b

Max(a, b) == IF a >= b THEN a ELSE b

SeqToSet(s) == {s[i] : i \in 1..Len(s)}

RECURSIVE SumSeq(_)
SumSeq(s) == IF s = <<>> THEN 0 ELSE s[1] + SumSeq(Tail(s))

RECURSIVE FilterSeq(_, _)
FilterSeq(s, keep) ==
  IF s = <<>> THEN <<>>
  ELSE IF s[1] \in keep THEN <<s[1]>> \o FilterSeq(Tail(s), keep)
       ELSE FilterSeq(Tail(s), keep)

\* faulty variant: truncation instead of rounding
MathRound_Floor(num, den) == num \div den

\* Math.round of the non-negative rational num/den: halves round up
MathRound(num, den) == (2 * num + den) \div (2 * den)

\* faulty variant: the month instead of the day
DayOf_Month(t) == (t + DaysPerMonth - 1) \div DaysPerMonth

\* the calendar day of a time (setHours(0, 0, 0, 0)); the clock counts days
DayOf(t) == t

MonthKey(t) == (t + DaysPerMonth - 1) \div DaysPerMonth

VARIABLES project, modules, updates, stats, now, lastOp, failures, inflight,
          accounts, tokens

vars == <<project, modules, updates, stats, now, lastOp, failures, inflight, accounts, tokens>>

\* ------------------------------------------------------ UserStats (part_007)
NewUserStats ==
  [exists |-> TRUE, completedProjects |-> 0, totalPoints |-> 0,
   totalHoursWorked |-> 0, projectHistory |-> <<>>, monthlyStats |-> <<>>]

NoUserStats == [NewUserStats EXCEPT !.exists = FALSE]

MonthIndex(ms, key) ==
  IF \E i \in 1..Len(ms) : ms[i].month = key
  THEN CHOOSE i \in 1..Len(ms) :
         ms[i].month = key /\ \A j \in 1..(i - 1) : ms[j].month # key
  ELSE 0

\* faulty variant: an existing month's bucket is overwritten, not added to
AddProjectToHistory_MonthOverwrite(s, entry, t) ==
  LET key == MonthKey(t)
      i == MonthIndex(s.monthlyStats, key)
      months ==
        IF i > 0
        THEN [s.monthlyStats EXCEPT
                ![i].projectsCompleted = @ + 1,
                ![i].pointsEarned = entry.pointsEarned,
                ![i].hoursWorked = entry.hoursWorked]
        ELSE Append(s.monthlyStats,
                    [month |-> key, projectsCompleted |-> 1,
                     pointsEarned |-> entry.pointsEarned,
                     hoursWorked |-> entry.hoursWorked])
  IN [s EXCEPT
        !.projectHistory = Append(@, entry),
        !.completedProjects = IF entry.role = "lead" THEN @ + 1 ELSE @,
        !.totalPoints = @ + entry.pointsEarned,
        !.totalHoursWorked = @ + entry.hoursWorked,
        !.monthlyStats = months]

\* userStatsSchema.methods.addProjectToHistory, run at time t
AddProjectToHistory(s, entry, t) ==
  LET key == MonthKey(t)
      i == MonthIndex(s.monthlyStats, key)
      months ==
        IF i > 0
        THEN [s.monthlyStats EXCEPT
                ![i].projectsCompleted = @ + 1,
                ![i].pointsEarned = @ + entry.pointsEarned,
                ![i].hoursWorked = @ + entry.hoursWorked]
        ELSE Append(s.monthlyStats,
                    [month |-> key, projectsCompleted |-> 1,
                     pointsEarned |-> entry.pointsEarned,
                     hoursWorked |-> entry.hoursWorked])
  IN [s EXCEPT
        !.projectHistory = Append(@, entry),
        !.completedProjects = IF entry.role = "lead" THEN @ + 1 ELSE @,
        !.totalPoints = @ + entry.pointsEarned,
        !.totalHoursWorked = @ + entry.hoursWorked,
        !.monthlyStats = months]

\* ------------------------------------------ points distribution (Project.js)
\* faulty variant: the bonus is the whole efficiency ratio
EfficiencyMultiplier_Ratio(est, act) ==
  IF act > 0 /\ est > 0 THEN <<est, act>> ELSE <<1, 1>>

\* efficiency multiplier as the fraction <<numerator, denominator>>
EfficiencyMultiplier(est, act) ==
  IF act > 0 /\ est > 0
  THEN IF est >= act THEN <<act + est, 2 * act>> ELSE <<est, act>>
  ELSE <<1, 1>>

\* faulty variant: the bonus and the penalty have no cap
DeadlineMultiplier_NoCap(completedAt, deadline) ==
  IF completedAt # 0 /\ deadline # 0
  THEN <<20 + (deadline - completedAt), 20>>
  ELSE <<1, 1>>

\* deadline multiplier as a fraction; completedAt = 0 is an unset date
DeadlineMultiplier(completedAt, deadline) ==
  IF completedAt # 0 /\ deadline # 0
  THEN LET d == deadline - completedAt
       IN IF d > 0 THEN <<10 + Min(d, 5), 10>>
          ELSE IF d < 0 THEN <<20 + Max(d, 0 - 10), 20>>
          ELSE <<1, 1>>
  ELSE <<1, 1>>

\* totalPoints = basePoints * efficiencyMultiplier * deadlineMultiplier
TotalPoints(p) ==
  LET e == EfficiencyMultiplier(p.totalEstimatedHours, p.totalActualHours)
      d == DeadlineMultiplier(p.completedAt, p.deadline)
  IN <<p.basePoints * e[1] * d[1], e[2] * d[2]>>

\* users in the order of their first daily update (keys of userHours)
RECURSIVE ContributorOrder(_)
ContributorOrder(upds) ==
  IF upds = <<>> THEN <<>>
  ELSE LET rest == ContributorOrder(SubSeq(upds, 1, Len(upds) - 1))
           u == upds[Len(upds)].user
       IN IF u \in SeqToSet(rest) THEN rest ELSE Append(rest, u)

\* faulty variant: a user's hours are those of the user's latest update
RECURSIVE UserHours_Latest(_, _)
UserHours_Latest(upds, u) ==
  IF upds = <<>> THEN 0
  ELSE IF upds[Len(upds)].user = u THEN upds[Len(upds)].hoursWorked
       ELSE UserHours_Latest(SubSeq(upds, 1, Len(upds) - 1), u)

\* userHours[userId]: the user's hoursWorked summed over the project's updates
RECURSIVE UserHours(_, _)
UserHours(upds, u) ==
  IF upds = <<>> THEN 0
  ELSE (IF upds[1].user = u THEN upds[1].hoursWorked ELSE 0)
       + UserHours(Tail(upds), u)

\* faulty variant: the lead is given the members' 60%
LeadPoints_MemberPool(tp) == MathRound(3 * tp[1], 5 * tp[2])

\* leadPoints = Math.round(totalPoints * 0.4), totalPoints the fraction tp
LeadPoints(tp) == MathRound(2 * tp[1], 5 * tp[2])

\* Math.round((hours / totalUserHours) * (totalPoints * 0.6))
MemberPoints(tp, hours, total) == MathRound(3 * tp[1] * hours, 5 * tp[2] * total)

\* the saves of the distribution, in order: <<user, history entry>>
Awards(p, upds) ==
  LET tp == TotalPoints(p)
      leadAward ==
        <<p.assignedLead,
          [role |-> "lead", pointsEarned |-> LeadPoints(tp),
           hoursWorked |-> p.totalActualHours, completedAt |-> p.completedAt]>>
      order == ContributorOrder(upds)
      total == SumSeq([i \in 1..Len(order) |-> UserHours(upds, order[i])])
      memberAward(u) ==
        <<u,
          [role |-> "member",
           pointsEarned |-> MemberPoints(tp, UserHours(upds, u), total),
           hoursWorked |-> UserHours(upds, u), completedAt |-> p.completedAt]>>
  IN <<leadAward>> \o
     (IF total > 0 THEN [i \in 1..Len(order) |-> memberAward(order[i])] ELSE <<>>)

\* findOne / create of the k-th recipient's stats, then addProjectToHistory and
\* save; the save of award number fail (if any) throws and ends the run
RECURSIVE ApplyAwards(_, _, _, _, _)
ApplyAwards(st, awards, k, fail, t) ==
  IF k > Len(awards) THEN [ok |-> TRUE, stats |-> st]
  ELSE LET u == awards[k][1]
           loaded == IF st[u].exists THEN st[u] ELSE NewUserStats
       IN IF k = fail
          THEN [ok |-> FALSE, stats |-> [st EXCEPT ![u] = loaded]]
          ELSE ApplyAwards(
                 [st EXCEPT ![u] = AddProjectToHistory(loaded, awards[k][2], t)],
                 awards, k + 1, fail, t)

\* faulty variant: the distribution never sets pointsDistributed
DistributePoints_FlagNotSet(p, upds, st, t, fail) ==
  LET r == ApplyAwards(st, Awards(p, upds), 1, fail, t)
  IN [ok |-> r.ok, project |-> p, stats |-> r.stats]

\* projectSchema.methods.calculateAndDistributePoints, lines 138-234
DistributePoints(p, upds, st, t, fail) ==
  LET r == ApplyAwards(st, Awards(p, upds), 1, fail, t)
  IN IF r.ok
     THEN [ok |-> TRUE, project |-> [p EXCEPT !.pointsDistributed = TRUE],
           stats |-> r.stats]
     ELSE [ok |-> FALSE, project |-> p, stats |-> r.stats]

\* projectSchema.methods.calculateAndDistributePoints
CalculateAndDistributePoints(p, upds, st, t, fail) ==
  IF p.pointsDistributed
  THEN [ok |-> TRUE, project |-> p, stats |-> st]
  ELSE DistributePoints(p, upds, st, t, fail)

\* ------------------------------------------ project aggregation (Project.js)
LiveModules(mods) == {m \in DOMAIN mods : mods[m].state = "live"}

RECURSIVE SumField(_, _, _)
SumField(mods, S, field) ==
  IF S = {} THEN 0
  ELSE LET m == CHOOSE x \in S : TRUE
       IN mods[m][field] + SumField(mods, S \ {m}, field)

\* faulty variant: every completion distributes, whatever pointsDistributed says
CalculateProgress_Redistribute(p, mods, upds, st, t, fail) ==
  LET live == LiveModules(mods)
      p1 == [p EXCEPT
               !.progress = MathRound(SumField(mods, live, "progress"),
                                      Cardinality(live)),
               !.totalEstimatedHours = SumField(mods, live, "estimatedTime"),
               !.totalActualHours = SumField(mods, live, "actualTime")]
      p2 == [p1 EXCEPT !.status = "completed", !.completedAt = t]
  IN IF live = {}
     THEN [ok |-> TRUE, project |-> [p EXCEPT !.progress = 0], stats |-> st]
     ELSE IF p1.progress = 100 /\ p1.status # "completed"
          THEN DistributePoints(p2, upds, st, t, fail)
          ELSE [ok |-> TRUE, project |-> p1, stats |-> st]

\* faulty variant: a project at 100 is completed again on every run
CalculateProgress_Recomplete(p, mods, upds, st, t, fail) ==
  LET live == LiveModules(mods)
      p1 == [p EXCEPT
               !.progress = MathRound(SumField(mods, live, "progress"),
                                      Cardinality(live)),
               !.totalEstimatedHours = SumField(mods, live, "estimatedTime"),
               !.totalActualHours = SumField(mods, live, "actualTime")]
      p2 == [p1 EXCEPT !.status = "completed", !.completedAt = t]
  IN IF live = {}
     THEN [ok |-> TRUE, project |-> [p EXCEPT !.progress = 0], stats |-> st]
     ELSE IF p1.progress = 100
          THEN IF ~p2.pointsDistributed
               THEN CalculateAndDistributePoints(p2, upds, st, t, fail)
               ELSE [ok |-> TRUE, project |-> p2, stats |-> st]
          ELSE [ok |-> TRUE, project |-> p1, stats |-> st]

\* projectSchema.methods.calculateProgress, run at time t on the loaded project p
CalculateProgress(p, mods, upds, st, t, fail) ==
  LET live == LiveModules(mods)
      p1 == [p EXCEPT
               !.progress = MathRound(SumField(mods, live, "progress"),
                                      Cardinality(live)),
               !.totalEstimatedHours = SumField(mods, live, "estimatedTime"),
               !.totalActualHours = SumField(mods, live, "actualTime")]
      p2 == [p1 EXCEPT !.status = "completed", !.completedAt = t]
  IN IF live = {}
     THEN [ok |-> TRUE, project |-> [p EXCEPT !.progress = 0], stats |-> st]
     ELSE IF p1.progress = 100 /\ p1.status # "completed"
          THEN IF ~p2.pointsDistributed
               THEN CalculateAndDistributePoints(p2, upds, st, t, fail)
               ELSE [ok |-> TRUE, project |-> p2, stats |-> st]
          ELSE [ok |-> TRUE, project |-> p1, stats |-> st]

\* moduleSchema.post('save'): the stored project is replaced only if nothing threw
ModulePostSave(p, mods, upds, st, t, fail) ==
  LET r == CalculateProgress(p, mods, upds, st, t, fail)
  IN IF r.ok THEN r ELSE [ok |-> FALSE, project |-> p, stats |-> r.stats]

\* -------------------------------------- module aggregation (DailyUpdate.js)
ModuleUpdates(upds, m) ==
  LET idx == {i \in 1..Len(upds) : upds[i].module = m}
  IN FilterSeq([i \in 1..Len(upds) |-> i], idx)

\* the update of module m with the greatest createdAt (updates[0] after the sort)
LatestUpdate(upds, m) ==
  LET ix == ModuleUpdates(upds, m) IN upds[ix[Len(ix)]]

TotalHours(upds, m) ==
  LET ix == ModuleUpdates(upds, m)
  IN SumSeq([i \in 1..Len(ix) |-> upds[ix[i]].hoursWorked])

\* faulty variant: any module that is not completed is moved to in_progress
DeriveStatus_NotCompleted(mod, latestProgress, t) ==
  IF latestProgress = 100 /\ mod.status # "completed"
  THEN [mod EXCEPT !.status = "completed", !.endDate = t]
  ELSE IF latestProgress > 0 /\ mod.status # "completed"
       THEN [mod EXCEPT !.status = "in_progress",
                        !.startDate = IF @ = 0 THEN t ELSE @]
       ELSE mod

\* status, startDate and endDate of the module after a daily update
DeriveStatus(mod, latestProgress, t) ==
  IF latestProgress = 100 /\ mod.status # "completed"
  THEN [mod EXCEPT !.status = "completed", !.endDate = t]
  ELSE IF latestProgress > 0 /\ mod.status = "pending"
       THEN [mod EXCEPT !.status = "in_progress",
                        !.startDate = IF @ = 0 THEN t ELSE @]
       ELSE mod

\* faulty variant: the hook takes the progress of the update being saved
RecomputeModule_SavedProgress(mod, upds, i, t) ==
  LET m == upds[i].module
      latestProgress == upds[i].progressPercentage
  IN DeriveStatus([mod EXCEPT !.progress = latestProgress,
                              !.actualTime = TotalHours(upds, m)],
                  latestProgress, t)

\* faulty variant: the hook adds the saved update's hours to the stored actualTime
RecomputeModule_AddHours(mod, upds, i, t) ==
  LET m == upds[i].module
      latestProgress == LatestUpdate(upds, m).progressPercentage
  IN DeriveStatus([mod EXCEPT !.progress = latestProgress,
                              !.actualTime = @ + upds[i].hoursWorked],
                  latestProgress, t)

\* the module as the hook of the saved update upds[i] stores it
RecomputeModule(mod, upds, i, t) ==
  LET m == upds[i].module
      latestProgress == LatestUpdate(upds, m).progressPercentage
  IN DeriveStatus([mod EXCEPT !.progress = latestProgress,
                              !.actualTime = TotalHours(upds, m)],
                  latestProgress, t)

\* dailyUpdateSchema.post('save') of the update upds[i]; upds already holds it
DailyUpdatePostSave(upds, i, mods, p, st, t, fail) ==
  LET m == upds[i].module
  IN IF ModuleUpdates(upds, m) # <<>> /\ mods[m].state = "live"
     THEN LET mods2 == [mods EXCEPT ![m] = RecomputeModule(@, upds, i, t)]
              r == ModulePostSave(p, mods2, upds, st, t, fail)
          IN [ok |-> r.ok, modules |-> mods2, project |-> r.project,
              stats |-> r.stats]
     ELSE [ok |-> TRUE, modules |-> mods, project |-> p, stats |-> st]

\* ---------------------------------------------------------------- requests
NoModule ==
  [state |-> "none", progress |-> 0, estimatedTime |-> 0, actualTime |-> 0,
   status |-> "pending", startDate |-> 0, endDate |-> 0, assignedUsers |-> <<>>]

FailInputs == 0..2

\* requests being served: a slot holds a request between two of its database
\* calls; every slot is free while requests are served one at a time
RequestIds == 1..MaxInflight

FreeSlot == [pc |-> "free", user |-> "none", module |-> "none", hoursWorked |-> 0,
             progressPercentage |-> 0]

NoRequests == [r \in RequestIds |-> FreeSlot]

\* the response status: the handler's success status, or 500 when a save threw
StatusCode(ok, success) == IF ok THEN success ELSE 500

\* the request served last: handler, caller, outcome, HTTP status, the module and the
\* daily update it addressed, and the value it submitted (if any)
Response(op, caller, ok, code, m, submitted, i) ==
  [op |-> op, caller |-> caller, ok |-> ok, code |-> code, module |-> m,
   submitted |-> submitted, update |-> i]

\* the User documents (User.js): accounts[u].exists is false for an id that
\* names no document
StaffAccounts ==
  [u \in Users |->
     [exists |-> TRUE, role |-> IF u \in Leads THEN "lead" ELSE "user",
      approved |-> TRUE, isActive |-> TRUE, department |-> "d1"]]

\* the RefreshToken documents (part_009), by token string
TokenIds == 1..MaxTokens

NoTokens == [t \in TokenIds |-> ([state |-> "none", userId |-> "none", isRevoked |-> FALSE, expiresAt |-> 0,
             loggedOut |-> FALSE])]

\* a request that ends before any write: nothing but the response changes
Rejected(op, caller, code, m, submitted) ==
  /\ lastOp' = Response(op, caller, FALSE, code, m, submitted, 0)
  /\ UNCHANGED <<project, modules, updates, stats, now, failures, inflight, accounts, tokens>>

\* no Project document: findById returns null
NoProject ==
  [assignedLead |-> "none", assignedUsers |-> <<>>, progress |-> 0,
   status |-> "pending", deadline |-> 0, completedAt |-> 0,
   totalEstimatedHours |-> 0, totalActualHours |-> 0,
   basePoints |-> DefaultBasePoints, pointsDistributed |-> FALSE,
   department |-> "none"]

ProjectExists == project # NoProject

\* the role authorize() reads from req.user
RoleOf(caller) ==
  IF caller = "admin" THEN "admin"
  ELSE IF caller \in Users /\ accounts[caller].exists THEN accounts[caller].role
  ELSE "none"

\* User.findOne({ _id, role: 'lead', approved: true, isActive: true })
ApprovedLead(u) ==
  /\ u \in Users
  /\ accounts[u].exists
  /\ accounts[u].role = "lead"
  /\ accounts[u].approved
  /\ accounts[u].isActive

\* faulty variant: the department is not part of the query
AssignableUsers_AnyDepartment(userIds, department) ==
  {u \in SeqToSet(userIds) \cap Users :
     /\ accounts[u].exists
     /\ accounts[u].role = "user"
     /\ accounts[u].approved
     /\ accounts[u].isActive}

\* User.find({ _id: { $in: userIds }, role: 'user', approved: true,
\* isActive: true, department })
AssignableUsers(userIds, department) ==
  {u \in SeqToSet(userIds) \cap Users :
     /\ accounts[u].exists
     /\ accounts[u].role = "user"
     /\ accounts[u].approved
     /\ accounts[u].isActive
     /\ accounts[u].department = department}

Init ==
  /\ project = [assignedLead |-> "l1", assignedUsers |-> <<>>, progress |-> 0,
                status |-> "pending", deadline |-> ProjectDeadline,
                completedAt |-> 0, totalEstimatedHours |-> 0,
                totalActualHours |-> 0, basePoints |-> DefaultBasePoints,
                pointsDistributed |-> FALSE,
                department |-> "d1"]
  /\ modules = [m \in ModuleIds |-> NoModule]
  /\ updates = <<>>
  /\ stats = [u \in Users |-> NoUserStats]
  /\ now = 1
  /\ lastOp = Response("init", "none", TRUE, 201, "none", None, 0)
  /\ failures = 0
  /\ inflight = NoRequests
  /\ accounts = StaffAccounts
  /\ tokens = NoTokens

\* the injected failure is counted; fail = 0 never fails
FailureBudget(fail, ok) ==
  /\ (fail # 0) => failures < MaxFailures
  /\ (fail # 0) => ~ok
  /\ failures' = IF ok THEN failures ELSE failures + 1

\* a day passes
Tick ==
  /\ now < MaxTime
  /\ now' = now + 1
  /\ UNCHANGED <<project, modules, updates, stats, lastOp, failures, inflight, accounts, tokens>>

\* users pushed onto project.assignedUsers by createModule / updateModule
NewUsersForProject(p, assigned) ==
  FilterSeq(assigned, SeqToSet(assigned) \ SeqToSet(p.assignedUsers))

AutoAssign(p, assigned) ==
  [p EXCEPT !.assignedUsers = @ \o NewUsersForProject(p, assigned)]

\* projectController.assignUsersToProject ($addToSet of the new ids)
AssignUsersToProject(caller, userIds) ==
  /\ RoleOf(caller) = "lead"
  /\ Len(userIds) > 0
  /\ ProjectExists
  /\ caller = project.assignedLead
  /\ Cardinality(AssignableUsers(userIds, project.department)) = Len(userIds)
  /\ LET new == NewUsersForProject(project, userIds)
     IN project' = [project EXCEPT !.assignedUsers = @ \o new]
  /\ lastOp' = Response("assignUsers", caller, TRUE, 200, "none", Some(userIds), 0)
  /\ UNCHANGED <<modules, updates, stats, now, failures, inflight, accounts, tokens>>

\* projectController.updateProject (admin)
UpdateProject(req) ==
  IF ~ProjectExists
  THEN Rejected("updateProject", "admin", 404, "none", None)
  ELSE IF /\ req.assignedLead # None
          /\ Val(req.assignedLead) # project.assignedLead
          /\ ~ApprovedLead(Val(req.assignedLead))
  THEN Rejected("updateProject", "admin", 404, "none", None)
  ELSE
  /\ project' =
       [project EXCEPT
          !.assignedLead = IF req.assignedLead # None THEN Val(req.assignedLead) ELSE @,
          !.department = IF req.department # None THEN Val(req.department) ELSE @,
          !.deadline = IF req.deadline # None THEN Val(req.deadline) ELSE @,
          !.status = IF req.status # None THEN Val(req.status) ELSE @]
  /\ lastOp' = Response("updateProject", "admin", TRUE, 200, "none", None, 0)
  /\ UNCHANGED <<modules, updates, stats, now, failures, inflight, accounts, tokens>>

\* the id Module.create gives the new document; "none" when the ids are used up
NextModuleId(mods) ==
  LET free == {i \in 1..Len(ModuleOrder) : mods[ModuleOrder[i]].state = "none"}
  IN IF free = {} THEN "none"
     ELSE ModuleOrder[CHOOSE i \in free : \A j \in free : i <= j]

\* moduleController.createModule: auto-assign, Module.create, post-save hook
CreateModule(caller, m, est, assigned, fail) ==
  /\ caller = project.assignedLead
  /\ m = NextModuleId(modules)
  /\ LET p1 == IF Len(assigned) > 0 THEN AutoAssign(project, assigned) ELSE project
         mods2 == [modules EXCEPT ![m] =
                     [NoModule EXCEPT !.state = "live", !.estimatedTime = est,
                                      !.assignedUsers = assigned]]
     IN \E r \in {ModulePostSave(p1, mods2, updates, stats, now, fail)} :
        /\ FailureBudget(fail, r.ok)
        /\ modules' = mods2
        /\ project' = r.project
        /\ stats' = r.stats
        /\ lastOp' = Response("createModule", caller, r.ok,
                              StatusCode(r.ok, 201), "none", None, 0)
  /\ UNCHANGED <<updates, now, inflight, accounts, tokens>>

\* moduleController.updateModule as exported: the project's lead or a user
\* assigned to the module; auto-assign, field updates, module.save, post-save hook
UpdateModuleHandler(caller, m, req, fail) ==
  /\ modules[m].state = "live"
  /\ \/ RoleOf(caller) = "lead" /\ caller = project.assignedLead
     \/ RoleOf(caller) = "user" /\ caller \in SeqToSet(modules[m].assignedUsers)
  /\ LET given == Len(req.assignedUsers) > 0
         p1 == IF given THEN AutoAssign(project, req.assignedUsers) ELSE project
         mod2 ==
           [modules[m] EXCEPT
              !.assignedUsers = IF given THEN req.assignedUsers ELSE @,
              !.estimatedTime =
                IF req.estimatedTime # None /\ Val(req.estimatedTime) # 0
                THEN Val(req.estimatedTime) ELSE @,
              !.actualTime = IF req.actualTime # None THEN Val(req.actualTime) ELSE @,
              !.progress = IF req.progress # None THEN Val(req.progress) ELSE @,
              !.status = IF req.status # None THEN Val(req.status) ELSE @,
              !.startDate =
                IF req.startDate # None /\ Val(req.startDate) # 0
                THEN Val(req.startDate) ELSE @,
              !.endDate =
                IF req.endDate # None /\ Val(req.endDate) # 0
                THEN Val(req.endDate) ELSE @]
         mods2 == [modules EXCEPT ![m] = mod2]
     IN \E r \in {ModulePostSave(p1, mods2, updates, stats, now, fail)} :
        /\ FailureBudget(fail, r.ok)
        /\ modules' = mods2
        /\ project' = r.project
        /\ stats' = r.stats
        /\ lastOp' = Response("updateModule", caller, r.ok,
                              StatusCode(r.ok, 200), "none", None, 0)
  /\ UNCHANGED <<updates, now, inflight, accounts, tokens>>

\* PUT /api/modules/:id: authorize('lead'), then the handler
UpdateModule(caller, m, req, fail) ==
  /\ RoleOf(caller) = "lead"
  /\ UpdateModuleHandler(caller, m, req, fail)

\* moduleController.deleteModule: module.deleteOne(), no save hook runs
DeleteModule(caller, m) ==
  /\ modules[m].state = "live"
  /\ caller = project.assignedLead
  /\ modules' = [modules EXCEPT ![m] = [NoModule EXCEPT !.state = "deleted"]]
  /\ lastOp' = Response("deleteModule", caller, TRUE, 200, "none", None, 0)
  /\ UNCHANGED <<project, updates, stats, now, failures, inflight, accounts, tokens>>

\* faulty variant: only updates dated after today count
ExistingUpdate_AfterToday(upds, user, m, t) ==
  \E i \in 1..Len(upds) :
    upds[i].user = user /\ upds[i].module = m /\ DayOf(upds[i].date) > DayOf(t)

\* an update of the user for the module dated today or later
ExistingUpdate(upds, user, m, t) ==
  \E i \in 1..Len(upds) :
    upds[i].user = user /\ upds[i].module = m /\ DayOf(upds[i].date) >= DayOf(t)

\* createDailyUpdate from DailyUpdate.create on: the document and its save hook
StoreDailyUpdate(user, m, hours, pct, fail) ==
  LET upds2 == Append(updates,
                      [user |-> user, module |-> m, date |-> now,
                       hoursWorked |-> hours, progressPercentage |-> pct])
  IN \E r \in {DailyUpdatePostSave(upds2, Len(upds2), modules, project,
                                  stats, now, fail)} :
       /\ FailureBudget(fail, r.ok)
       /\ updates' = upds2
       /\ modules' = r.modules
       /\ project' = r.project
       /\ stats' = r.stats
       /\ lastOp' = Response("createDailyUpdate", user, r.ok,
                             StatusCode(r.ok, 201), m, None, Len(upds2))
       /\ UNCHANGED <<now, accounts, tokens>>

\* dailyUpdateController.createDailyUpdate (route: users only)
CreateDailyUpdate(user, m, hours, pct, fail) ==
  /\ user \in Members
  /\ user \in SeqToSet(project.assignedUsers)
  /\ modules[m].state = "live"
  /\ ~ExistingUpdate(updates, user, m, now)
  /\ StoreDailyUpdate(user, m, hours, pct, fail)
  /\ UNCHANGED inflight

\* dailyUpdateController.updateDailyUpdate: own update, same day only
UpdateDailyUpdate(user, i, req, fail) ==
  /\ i \in 1..Len(updates)
  /\ user \in Members
  /\ updates[i].user = user
  /\ DayOf(updates[i].date) = DayOf(now)
  /\ LET upds2 ==
           [updates EXCEPT
              ![i].hoursWorked =
                IF req.hoursWorked # None THEN Val(req.hoursWorked) ELSE @,
              ![i].progressPercentage =
                IF req.progressPercentage # None
                THEN Val(req.progressPercentage) ELSE @]
         m == updates[i].module
     IN \E r \in {DailyUpdatePostSave(upds2, i, modules, project, stats,
                                     now, fail)} :
        /\ FailureBudget(fail, r.ok)
        /\ updates' = upds2
        /\ modules' = r.modules
        /\ project' = r.project
        /\ stats' = r.stats
        /\ lastOp' = Response("updateDailyUpdate", user, r.ok,
                              StatusCode(r.ok, 200), m, None, i)
  /\ UNCHANGED <<now, inflight, accounts, tokens>>

\* ------------------------------------------------- the cascade, end to end
NoFields ==
  [estimatedTime |-> None, actualTime |-> None, progress |-> None, status |-> None,
   startDate |-> None, endDate |-> None, assignedUsers |-> <<>>]

\* createDailyUpdate while the model holds fewer than cap updates
SubmitDailyUpdate(cap, user, m, hours, pct, fail) ==
  /\ Len(updates) < cap
  /\ CreateDailyUpdate(user, m, hours, pct, fail)

\* the requests of the cascade; fails are the injected failures allowed
CascadeNext(fails) ==
  \/ Tick
  \/ \E c \in Leads : AssignUsersToProject(c, <<"u1">>)
  \/ \E req \in ([assignedLead : {None, Some("l2")},
             status : {None, Some("in_progress")},
             deadline : {None}, department : {None}]) : UpdateProject(req)
  \/ \E c \in Leads, m \in ModuleIds, f \in fails : CreateModule(c, m, 4, <<>>, f)
  \/ \E c \in Leads, m \in ModuleIds, req \in {[NoFields EXCEPT !.progress = pr] : pr \in {None, Some(0), Some(100)}}, f \in fails :
        UpdateModule(c, m, req, f)
  \/ \E c \in Leads, m \in ModuleIds : DeleteModule(c, m)
  \/ \E m \in ModuleIds, v \in {0, 100}, f \in fails :
        SubmitDailyUpdate(MaxCascadeUpdates, "u1", m, 2, v, f)
  \/ \E i \in 1..MaxCascadeUpdates, req \in [hoursWorked : {None}, progressPercentage : {None, Some(100)}], f \in fails :
        UpdateDailyUpdate("u1", i, req, f)

\* every save succeeds
Next == CascadeNext({0})

Spec == Init /\ [][Next]_vars

\* one save of a UserStats record during a distribution may fail
NextFail == CascadeNext(FailInputs)

SpecFail == Init /\ [][NextFail]_vars

\* --------------------------------------- daily updates of one module (m1)
\* the state after createProject, assignUsersToProject(u1, u2) and two
\* createModule(4): m2 gets no update, so the project stays short of 100
InitDaily ==
  /\ project = [assignedLead |-> "l1", assignedUsers |-> <<"u1", "u2">>,
                progress |-> 0, status |-> "pending", deadline |-> ProjectDeadline,
                completedAt |-> 0, totalEstimatedHours |-> 8,
                totalActualHours |-> 0, basePoints |-> DefaultBasePoints,
                pointsDistributed |-> FALSE,
                department |-> "d1"]
  /\ modules = [m \in ModuleIds |->
                  [NoModule EXCEPT !.state = "live", !.estimatedTime = 4]]
  /\ updates = <<>>
  /\ stats = [u \in Users |-> NoUserStats]
  /\ now = 1
  /\ lastOp = Response("createModule", "l1", TRUE, 201, "none", None, 0)
  /\ failures = 0
  /\ inflight = NoRequests
  /\ accounts = StaffAccounts
  /\ tokens = NoTokens

NextDaily ==
  \/ Tick
  \/ \E u \in Members, h \in {1, 2}, v \in {0, 50, 100} :
        SubmitDailyUpdate(MaxUpdates, u, "m1", h, v, 0)
  \/ \E u \in Members, i \in 1..MaxUpdates, req \in [hoursWorked : {None, Some(1)}, progressPercentage : {None, Some(50), Some(100)}] :
        UpdateDailyUpdate(u, i, req, 0)
  \/ \E req \in ({[NoFields EXCEPT !.status = Some("blocked")],
             [NoFields EXCEPT !.status = Some("pending"), !.startDate = Some(1)]}) : UpdateModule("l1", "m1", req, 0)

SpecDaily == InitDaily /\ [][NextDaily]_vars

\* ------------------------------- project recomputation over drawn modules
CalcModuleIds == {"c1", "c2", "c3"}

\* the project as createProject (and an admin's updateProject of the status)
\* left it, before any module was saved
FreshProject(status) ==
  [assignedLead |-> "l1", assignedUsers |-> <<"u1">>, progress |-> 0,
   status |-> status, deadline |-> ProjectDeadline, completedAt |-> 0,
   totalEstimatedHours |-> 0, totalActualHours |-> 0,
   basePoints |-> DefaultBasePoints, pointsDistributed |-> FALSE,
                department |-> "d1"]

\* modules absent or live with drawn progress and hours; the project and the stats are as the
\* post-save hook of the last module save left them
InitCalc ==
  /\ modules \in [CalcModuleIds -> ({NoModule} \cup
            {[NoModule EXCEPT !.state = "live", !.progress = pr, !.estimatedTime = e,
                              !.actualTime = a] :
               pr \in {0, 25, 50, 75, 99, 100}, e \in {2, 4}, a \in {1}})]
  /\ updates \in ({<<>>, <<[user |-> "u1", module |-> "c1", date |-> 1, hoursWorked |-> 2,
                      progressPercentage |-> 100]>>})
  /\ now = 1
  /\ \E status \in {"pending", "completed"} :
       \E r \in {ModulePostSave(FreshProject(status), modules, updates,
                                [u \in Users |-> NoUserStats], 1, 0)} :
         /\ project = r.project
         /\ stats = r.stats
  /\ lastOp = Response("updateModule", "l1", TRUE, 200, "none", None, 0)
  /\ failures = 0
  /\ inflight = NoRequests
  /\ accounts = StaffAccounts
  /\ tokens = NoTokens

\* project.calculateProgress() and project.save(), as the module hook runs them
RecalculateProject(fail) ==
  /\ \E r \in {ModulePostSave(project, modules, updates, stats, now, fail)} :
       /\ FailureBudget(fail, r.ok)
       /\ project' = r.project
       /\ stats' = r.stats
       /\ lastOp' = Response("calculateProgress", "none", r.ok,
                             StatusCode(r.ok, 200), "none", None, 0)
  /\ UNCHANGED <<modules, updates, now, inflight, accounts, tokens>>

NextCalc ==
  \/ Tick
  \/ \E m \in CalcModuleIds : DeleteModule("l1", m)
  \/ \E req \in ([assignedLead : {None}, status : {Some("in_progress")}, deadline : {None},
             department : {None}]) : UpdateProject(req)
  \/ \E f \in FailInputs : RecalculateProject(f)

SpecCalc == InitCalc /\ [][NextCalc]_vars

\* ------------------------------------ direct progress updates of a module
\* faulty variant: the progress is stored as submitted, without the upper cap
ClampProgress_NoCap(v) == Max(0, v)

\* Math.min(100, Math.max(0, req.body.progress))
ClampProgress(v) == Min(100, Max(0, v))

\* moduleController.updateModuleProgress (part_005): assigned users only (the
\* Module schema has no assignedLead, so isLead is never true); a decrease of a
\* positive progress is refused; the value is clamped and the status follows it
UpdateModuleProgress(caller, m, progress, fail) ==
  LET mod == modules[m]
      mod2 == [mod EXCEPT
                 !.progress = ClampProgress(progress),
                 !.status = IF ClampProgress(progress) = 100
                            THEN "completed" ELSE "in_progress"]
      mods2 == [modules EXCEPT ![m] = mod2]
  IN IF mod.state # "live"
     THEN fail = 0 /\ Rejected("updateModuleProgress", caller, 404, m, Some(progress))
     ELSE IF caller \notin SeqToSet(mod.assignedUsers)
     THEN fail = 0 /\ Rejected("updateModuleProgress", caller, 403, m, Some(progress))
     ELSE IF progress < mod.progress /\ mod.progress > 0
     THEN fail = 0 /\ Rejected("updateModuleProgress", caller, 400, m, Some(progress))
     ELSE \E r \in {ModulePostSave(project, mods2, updates, stats, now, fail)} :
            /\ FailureBudget(fail, r.ok)
            /\ modules' = mods2
            /\ project' = r.project
            /\ stats' = r.stats
            /\ lastOp' = Response("updateModuleProgress", caller, r.ok,
                                  StatusCode(r.ok, 200), m, Some(progress), 0)
            /\ UNCHANGED <<updates, now, inflight, accounts, tokens>>

\* the validators of moduleSchema that module.save() runs
ValidModule(mod) ==
  /\ mod.progress >= 0 /\ mod.progress <= 100
  /\ mod.actualTime >= 0
  /\ mod.estimatedTime >= 0
  /\ mod.status \in {"pending", "in_progress", "completed", "blocked"}

\* adminController.updateModuleProgress: the project's lead only; the fields
\* are stored as submitted, the status follows a submitted progress, and
\* module.save() validates
LeadUpdateModuleProgress(caller, m, req, fail) ==
  LET mod == modules[m]
      mod1 == [mod EXCEPT
                 !.progress = IF req.progress # None THEN Val(req.progress) ELSE @,
                 !.actualTime = IF req.actualTime # None THEN Val(req.actualTime) ELSE @,
                 !.status = IF req.status # None THEN Val(req.status) ELSE @]
      mod2 == IF req.progress = Some(100)
              THEN [mod1 EXCEPT !.status = "completed",
                                !.endDate = IF @ = 0 THEN now ELSE @]
              ELSE IF req.progress # None /\ Val(req.progress) > 0
                      /\ mod1.status = "pending"
              THEN [mod1 EXCEPT !.status = "in_progress",
                                !.startDate = IF @ = 0 THEN now ELSE @]
              ELSE mod1
      mods2 == [modules EXCEPT ![m] = mod2]
  IN IF mod.state # "live"
     THEN fail = 0 /\ Rejected("leadUpdateModuleProgress", caller, 404, m, req.progress)
     ELSE IF caller # project.assignedLead
     THEN fail = 0 /\ Rejected("leadUpdateModuleProgress", caller, 403, m, req.progress)
     ELSE IF ~ValidModule(mod2)
     THEN fail = 0 /\ Rejected("leadUpdateModuleProgress", caller, 400, m, req.progress)
     ELSE \E r \in {ModulePostSave(project, mods2, updates, stats, now, fail)} :
            /\ FailureBudget(fail, r.ok)
            /\ modules' = mods2
            /\ project' = r.project
            /\ stats' = r.stats
            /\ lastOp' = Response("leadUpdateModuleProgress", caller, r.ok,
                                  StatusCode(r.ok, 200), m, req.progress, 0)
            /\ UNCHANGED <<updates, now, inflight, accounts, tokens>>

\* submitted progress values: below the range, inside, above
ProgressInputs == {0 - 10, 0, 50, 100, 150}

\* the state after createProject, assignUsersToProject(u1), createModule(m1, u1)
\* and createModule(m2)
InitProgress ==
  /\ project = [assignedLead |-> "l1", assignedUsers |-> <<"u1">>,
                progress |-> 0, status |-> "pending", deadline |-> ProjectDeadline,
                completedAt |-> 0, totalEstimatedHours |-> 8,
                totalActualHours |-> 0, basePoints |-> DefaultBasePoints,
                pointsDistributed |-> FALSE,
                department |-> "d1"]
  /\ modules = [m \in ModuleIds |->
                  [NoModule EXCEPT !.state = "live", !.estimatedTime = 4,
                     !.assignedUsers = IF m = "m1" THEN <<"u1">> ELSE <<>>]]
  /\ updates = <<>>
  /\ stats = [u \in Users |-> NoUserStats]
  /\ now = 1
  /\ lastOp = Response("createModule", "l1", TRUE, 201, "none", None, 0)
  /\ failures = 0
  /\ inflight = NoRequests
  /\ accounts = StaffAccounts
  /\ tokens = NoTokens

NextProgress ==
  \/ Tick
  \/ \E c \in Members, v \in ProgressInputs : UpdateModuleProgress(c, "m1", v, 0)
  \/ \E c \in Leads, req \in ([progress : {None} \cup {Some(v) : v \in ProgressInputs},
             actualTime : {None},
             status : {None, Some("blocked")}]) :
        LeadUpdateModuleProgress(c, "m1", req, 0)
  \/ \E m \in ModuleIds : DeleteModule("l1", m)

SpecProgress == InitProgress /\ [][NextProgress]_vars

\* ------------------------------------ daily-update requests that are refused
\* createDailyUpdate ending in one of its early returns (part_002, lines 22-65)
CreateDailyUpdateRefused(user, m) ==
  /\ user \in Members
  /\ LET code == IF user \notin SeqToSet(project.assignedUsers) THEN 403
                 ELSE IF modules[m].state # "live" THEN 404
                 ELSE IF ExistingUpdate(updates, user, m, now) THEN 400
                 ELSE 0
     IN /\ code # 0
        /\ lastOp' = Response("createDailyUpdate", user, FALSE, code, m, None, 0)
  /\ UNCHANGED <<project, modules, updates, stats, now, failures, inflight, accounts, tokens>>

\* updateDailyUpdate ending in one of its early returns (part_002, lines 191-219)
UpdateDailyUpdateRefused(user, i) ==
  /\ user \in Members
  /\ LET code == IF i \notin 1..Len(updates) THEN 404
                 ELSE IF updates[i].user # user THEN 403
                 ELSE IF DayOf(updates[i].date) # DayOf(now) THEN 400
                 ELSE 0
         m == IF i \in 1..Len(updates) THEN updates[i].module ELSE "none"
     IN /\ code # 0
        /\ lastOp' = Response("updateDailyUpdate", user, FALSE, code, m, None, i)
  /\ UNCHANGED <<project, modules, updates, stats, now, failures, inflight, accounts, tokens>>

\* daily updates of two users on two modules, served one at a time, with the
\* refused requests recorded
NextSubmit ==
  \/ Tick
  \/ \E u \in Members, m \in ModuleIds : SubmitDailyUpdate(MaxUpdates, u, m, 2, 50, 0)
  \/ \E u \in Members, m \in ModuleIds : CreateDailyUpdateRefused(u, m)
  \/ \E u \in Members, i \in 1..MaxUpdates, req \in [hoursWorked : {None, Some(1)}, progressPercentage : {Some(100)}] :
        UpdateDailyUpdate(u, i, req, 0)
  \/ \E u \in Members, i \in 1..MaxUpdates : UpdateDailyUpdateRefused(u, i)

SpecSubmit == InitDaily /\ [][NextSubmit]_vars

\* ------------------------------- createDailyUpdate requests served concurrently
\* lines 22-48: the project and the module are read; the request goes on to
\* the duplicate check
StartCreateDailyUpdate(r, user, m, hours, pct) ==
  /\ inflight[r].pc = "free"
  /\ \A q \in RequestIds : q < r => inflight[q].pc # "free"
  /\ user \in Members
  /\ user \in SeqToSet(project.assignedUsers)
  /\ modules[m].state = "live"
  /\ inflight' = [inflight EXCEPT ![r] =
                    [pc |-> "check", user |-> user, module |-> m,
                     hoursWorked |-> hours, progressPercentage |-> pct]]
  /\ UNCHANGED <<project, modules, updates, stats, now, lastOp, failures, accounts, tokens>>

\* lines 50-65: DailyUpdate.findOne for an update of today; 400 if there is one
CheckExistingUpdate(r) ==
  /\ inflight[r].pc = "check"
  /\ IF ExistingUpdate(updates, inflight[r].user, inflight[r].module, now)
     THEN /\ inflight' = [inflight EXCEPT ![r] = FreeSlot]
          /\ lastOp' = Response("createDailyUpdate", inflight[r].user, FALSE, 400,
                                inflight[r].module, None, 0)
     ELSE /\ inflight' = [inflight EXCEPT ![r].pc = "create"]
          /\ UNCHANGED lastOp
  /\ UNCHANGED <<project, modules, updates, stats, now, failures, accounts, tokens>>

\* lines 67-86: DailyUpdate.create (its save hook included) and the response
FinishCreateDailyUpdate(r) ==
  /\ inflight[r].pc = "create"
  /\ Len(updates) < MaxUpdates
  /\ StoreDailyUpdate(inflight[r].user, inflight[r].module, inflight[r].hoursWorked,
                      inflight[r].progressPercentage, 0)
  /\ inflight' = [inflight EXCEPT ![r] = FreeSlot]

NextRace ==
  \/ Tick
  \/ \E r \in RequestIds, u \in Members, m \in ModuleIds, v \in {50, 100} :
        StartCreateDailyUpdate(r, u, m, 2, v)
  \/ \E r \in RequestIds : CheckExistingUpdate(r)
  \/ \E r \in RequestIds : FinishCreateDailyUpdate(r)

SpecRace == InitDaily /\ [][NextRace]_vars

\* ------------------------------- the distribution over drawn hours and dates
\* the day the last module reaches 100: completedAt = new Date()
PointsDay == 40

DailyUpdateDoc(user, m, date, hours, pct) ==
  [user |-> user, module |-> m, date |-> date, hoursWorked |-> hours,
   progressPercentage |-> pct]

\* m2 is complete and m1 is half done: the project stands at 75
InitPoints ==
  /\ \E est \in {<<0, 0>>, <<60, 40>>}, act \in {<<0, 0>>, <<40, 40>>, <<60, 40>>, <<80, 40>>}, dl \in {1, 10, 20, 30, 35, 39, 40, 41, 45, 50, 70, 80} :
       /\ modules =
            [m \in ModuleIds |->
               IF m = "m1"
               THEN [NoModule EXCEPT !.state = "live", !.progress = 50,
                                     !.status = "in_progress", !.startDate = 1,
                                     !.estimatedTime = est[1], !.actualTime = act[1]]
               ELSE [NoModule EXCEPT !.state = "live", !.progress = 100,
                                     !.status = "completed", !.startDate = 1,
                                     !.endDate = 1,
                                     !.estimatedTime = est[2], !.actualTime = act[2]]]
       /\ project =
            [assignedLead |-> "l1", assignedUsers |-> <<"u1", "u2">>,
             progress |-> 75, status |-> "in_progress", deadline |-> dl,
             completedAt |-> 0, totalEstimatedHours |-> est[1] + est[2],
             totalActualHours |-> act[1] + act[2],
             basePoints |-> DefaultBasePoints, pointsDistributed |-> FALSE,
                department |-> "d1"]
  /\ updates \in ({<<>>,
             <<DailyUpdateDoc("u1", "m1", 1, 0, 50)>>,
             <<DailyUpdateDoc("u1", "m1", 1, 24, 50), DailyUpdateDoc("u2", "m1", 1, 24, 50),
               DailyUpdateDoc("u1", "m2", 1, 24, 100), DailyUpdateDoc("u2", "m2", 1, 16, 100),
               DailyUpdateDoc("u1", "m1", 2, 12, 50)>>,
             <<DailyUpdateDoc("u1", "m1", 1, 1, 50), DailyUpdateDoc("u2", "m1", 1, 0, 50)>>,
             <<DailyUpdateDoc("u1", "m1", 1, 1, 50), DailyUpdateDoc("u2", "m2", 1, 7, 100)>>})
  /\ stats = [u \in Users |-> NoUserStats]
  /\ now = PointsDay
  /\ lastOp = Response("updateModule", "l1", TRUE, 200, "none", None, 0)
  /\ failures = 0
  /\ inflight = NoRequests
  /\ accounts = StaffAccounts
  /\ tokens = NoTokens

\* the admin hands the project to the other lead
PointsProjectRequests ==
  [assignedLead : {Some("l1"), Some("l2")}, status : {None}, deadline : {None},
   department : {None}]

NextPoints ==
  \/ \E req \in PointsProjectRequests : UpdateProject(req)
  \/ \E c \in Leads, req \in {NoFields, [NoFields EXCEPT !.progress = Some(100)]} : UpdateModule(c, "m1", req, 0)

SpecPoints == InitPoints /\ [][NextPoints]_vars

\* ------------------------------------ awards applied to statistics records
\* one award as the distribution applies it: findOne or create the record of
\* u, addProjectToHistory, save
AwardProject(u, award) ==
  /\ Len(stats[u].projectHistory) < MaxHistory
  /\ LET loaded == IF stats[u].exists THEN stats[u] ELSE NewUserStats
         entry == [role |-> award.role, pointsEarned |-> award.pointsEarned,
                   hoursWorked |-> award.hoursWorked, completedAt |-> now]
     IN stats' = [stats EXCEPT ![u] = AddProjectToHistory(loaded, entry, now)]
  /\ lastOp' = Response("addProjectToHistory", u, TRUE, 200, "none", None, 0)
  /\ UNCHANGED <<project, modules, updates, now, failures, inflight, accounts, tokens>>

\* a month passes
NextMonth ==
  /\ MonthKey(now) < MaxMonths
  /\ now' = now + DaysPerMonth
  /\ UNCHANGED <<project, modules, updates, stats, lastOp, failures, inflight,
                 accounts, tokens>>

NextAwards ==
  \/ NextMonth
  \/ \E award \in ({[role |-> "lead", pointsEarned |-> 40, hoursWorked |-> 5],
             [role |-> "member", pointsEarned |-> 24, hoursWorked |-> 5],
             [role |-> "member", pointsEarned |-> 0, hoursWorked |-> 0]}) :
        AwardProject(IF award.role = "lead" THEN "l1" ELSE "u1", award)

SpecAwards == Init /\ [][NextAwards]_vars

\* ------------------------------------- leads and members of one project
\* projectController.createProject (admin): the lead is looked up with the
\* submitted department
CreateProject(req) ==
  /\ ~ProjectExists
  /\ IF /\ ApprovedLead(req.assignedLead)
        /\ accounts[req.assignedLead].department = req.department
     THEN /\ project' = [NoProject EXCEPT !.assignedLead = req.assignedLead,
                                          !.department = req.department,
                                          !.deadline = ProjectDeadline]
          /\ lastOp' = Response("createProject", "admin", TRUE, 201, "none", None, 0)
          /\ UNCHANGED <<modules, updates, stats, now, failures, inflight,
                         accounts, tokens>>
     ELSE Rejected("createProject", "admin", 404, "none", None)

\* assignUsersToProject ending in the route's or one of its own early returns
AssignUsersToProjectRefused(caller, userIds) ==
  LET code ==
        IF RoleOf(caller) # "lead" THEN 403
        ELSE IF Len(userIds) = 0 THEN 400
        ELSE IF ~ProjectExists THEN 404
        ELSE IF caller # project.assignedLead THEN 403
        ELSE IF Cardinality(AssignableUsers(userIds, project.department))
                  # Len(userIds) THEN 400
        ELSE 0
  IN /\ code # 0
     /\ Rejected("assignUsers", caller, code, "none", Some(userIds))

\* projectController.removeUserFromProject (route: leads only)
RemoveUserFromProject(caller, userId) ==
  IF RoleOf(caller) # "lead"
  THEN Rejected("removeUser", caller, 403, "none", None)
  ELSE IF ~ProjectExists
  THEN Rejected("removeUser", caller, 404, "none", None)
  ELSE IF caller # project.assignedLead
  THEN Rejected("removeUser", caller, 403, "none", None)
  ELSE
  /\ project' = [project EXCEPT
                   !.assignedUsers = FilterSeq(@, SeqToSet(@) \ {userId})]
  /\ lastOp' = Response("removeUser", caller, TRUE, 200, "none", None, 0)
  /\ UNCHANGED <<modules, updates, stats, now, failures, inflight, accounts, tokens>>

\* no project yet
InitAssign ==
  /\ project = NoProject
  /\ modules = [m \in ModuleIds |-> NoModule]
  /\ updates = <<>>
  /\ stats = [u \in Users |-> NoUserStats]
  /\ now = 1
  /\ lastOp = Response("init", "none", TRUE, 201, "none", None, 0)
  /\ failures = 0
  /\ inflight = NoRequests
  /\ accounts \in ({[StaffAccounts EXCEPT !["l2"] = a, !["u2"] = b] :
               a \in {StaffAccounts["l2"],
                      [StaffAccounts["l2"] EXCEPT !.department = "d2"],
                      [StaffAccounts["l2"] EXCEPT !.approved = FALSE]},
               b \in {StaffAccounts["u2"],
                      [StaffAccounts["u2"] EXCEPT !.department = "d2"],
                      [StaffAccounts["u2"] EXCEPT !.approved = FALSE],
                      [StaffAccounts["u2"] EXCEPT !.isActive = FALSE],
                      [StaffAccounts["u2"] EXCEPT !.exists = FALSE]}})
  /\ tokens = NoTokens

\* req.body.userIds: one id, two ids, a repeated id, a lead's id, none
AssignInputs == {<<>>, <<"u1">>, <<"u2">>, <<"u1", "u2">>, <<"u1", "u1">>, <<"u1", "l2">>}

\* req.body.assignedUsers of createModule and updateModule
ModuleAssignInputs == {<<>>, <<"u1">>, <<"u2">>, <<"u1", "u1">>}

NextAssign ==
  \/ \E req \in [assignedLead : {"l1", "l2", "u1"}, department : {"d1", "d2"}] : CreateProject(req)
  \/ \E req \in ([assignedLead : {None, Some("l1"), Some("l2")}, status : {None},
             deadline : {None}, department : {None, Some("d2")}]) : UpdateProject(req)
  \/ \E c \in Leads, ids \in AssignInputs : AssignUsersToProject(c, ids)
  \/ \E c \in Leads \cup {"u1"}, ids \in AssignInputs :
        AssignUsersToProjectRefused(c, ids)
  \/ \E c \in Leads, u \in Members : RemoveUserFromProject(c, u)
  \/ \E c \in Leads, a \in ModuleAssignInputs : CreateModule(c, "m1", 4, a, 0)
  \/ \E c \in Leads, a \in ModuleAssignInputs :
        UpdateModule(c, "m1", [NoFields EXCEPT !.assignedUsers = a], 0)

SpecAssign == InitAssign /\ [][NextAssign]_vars

\* ------------------------------------------- who may read and report what
\* the response of a read: status, message of a refusal, documents returned
ReadResponse(op, caller, code, message, data) ==
  [op |-> op, caller |-> caller, ok |-> code = 200, code |-> code,
   module |-> "none", submitted |-> None, update |-> 0,
   message |-> message, data |-> data]

\* a request that reads: nothing but the response changes
Reads(response) ==
  /\ lastOp' = response
  /\ UNCHANGED <<project, modules, updates, stats, now, failures, inflight,
                 accounts, tokens>>

\* GET /api/projects/:id: authorize('admin', 'lead'), then getProject
GetProject(caller) ==
  LET role == RoleOf(caller)
      isAssignedUser == caller \in SeqToSet(project.assignedUsers)
      isAssignedLead == project.assignedLead = caller
  IN IF role \notin {"admin", "lead"}
     THEN Reads(ReadResponse("getProject", caller, 403,
                             "Role is not authorized to access this route", {}))
     ELSE IF ~ProjectExists
     THEN Reads(ReadResponse("getProject", caller, 404, "Project not found", {}))
     ELSE IF ~(\/ role = "admin"
               \/ role = "lead" /\ isAssignedLead
               \/ role = "user" /\ isAssignedUser)
     THEN Reads(ReadResponse("getProject", caller, 403,
                             "Role is not authorized to access this route", {}))
     ELSE Reads(ReadResponse("getProject", caller, 200, "", {"project"}))

\* faulty variant: every lead may view the modules
MayViewModules_AnyLead(caller) == TRUE

\* getModulesByProject: a lead must be the project's assigned lead
MayViewModules(caller) ==
  ~(RoleOf(caller) = "lead" /\ project.assignedLead # caller)

\* GET /api/projects/:projectId/modules: authorize('admin', 'lead', 'user'),
\* then getModulesByProject
GetModulesByProject(caller) ==
  IF RoleOf(caller) \notin {"admin", "lead", "user"}
  THEN Reads(ReadResponse("getModulesByProject", caller, 403,
                          "Role is not authorized to access this route", {}))
  ELSE IF ~ProjectExists
  THEN Reads(ReadResponse("getModulesByProject", caller, 404, "Project not found", {}))
  ELSE IF ~MayViewModules(caller)
  THEN Reads(ReadResponse("getModulesByProject", caller, 403,
                          "Not authorized to view these modules", {}))
  ELSE Reads(ReadResponse("getModulesByProject", caller, 200, "",
                          LiveModules(modules)))

\* PATCH /api/modules/:id/progress: authorize('lead'), then the exported
\* updateModuleProgress
PatchModuleProgress(caller, m, req) ==
  IF RoleOf(caller) # "lead"
  THEN Rejected("leadUpdateModuleProgress", caller, 403, m, req.progress)
  ELSE LeadUpdateModuleProgress(caller, m, req, 0)

NextAccess ==
  \/ \E c \in (Users \cup {"admin"}) : GetProject(c)
  \/ \E c \in (Users \cup {"admin"}) : GetModulesByProject(c)
  \/ \E c \in Users, req \in [progress : {Some(50), Some(100)}, actualTime : {None}, status : {None}] : PatchModuleProgress(c, "m1", req)
  \/ \E req \in PointsProjectRequests : UpdateProject(req)
  \/ \E c \in Leads : AssignUsersToProject(c, <<"u2">>)
  \/ \E c \in Leads, u \in Members : RemoveUserFromProject(c, u)
  \/ \E c \in Leads : DeleteModule(c, "m2")

SpecAccess == InitProgress /\ [][NextAccess]_vars

\* ------------------------- updateModule as the controller tests call it
NextHandler ==
  \/ \E c \in Users, req \in ([estimatedTime : {None, Some(8)}, actualTime : {None, Some(2)},
             progress : {None, Some(75), Some(100)}, status : {None},
             startDate : {None}, endDate : {None},
             assignedUsers : {<<>>, <<"u2">>}]) :
        UpdateModuleHandler(c, "m1", req, 0)
  \/ \E c \in Leads : DeleteModule(c, "m2")

SpecHandler == InitProgress /\ [][NextHandler]_vars

\* ------------------------------------------------------- refresh tokens
\* the response of an authentication request: the token presented or issued
\* and whether an access token was issued
AuthResponse(op, caller, code, token, accessToken) ==
  [op |-> op, caller |-> caller, ok |-> code \in {200, 201}, code |-> code,
   module |-> "none", submitted |-> None, update |-> 0,
   token |-> token, accessToken |-> accessToken]

AuthFrame ==
  UNCHANGED <<project, modules, updates, stats, now, failures, inflight, accounts>>

\* generateRefreshToken: a string never signed before
FreshToken == CHOOSE t \in TokenIds :
                /\ tokens[t].state = "none"
                /\ \A o \in TokenIds : tokens[o].state = "none" => t <= o

\* authController.login: generateRefreshToken and saveRefreshToken
Login(u) ==
  /\ accounts[u].exists /\ accounts[u].isActive /\ accounts[u].approved
  /\ \E t \in TokenIds : tokens[t].state = "none"
  /\ tokens' = [tokens EXCEPT ![FreshToken] =
                  [state |-> "stored", userId |-> u, isRevoked |-> FALSE,
                   expiresAt |-> now + RefreshLifetime, loggedOut |-> FALSE]]
  /\ lastOp' = AuthResponse("login", u, 200, FreshToken, TRUE)
  /\ AuthFrame

\* faulty variant: the lookup does not ask for isRevoked: false
StoredToken_AnyRevocation(t) == tokens[t].state = "stored"

\* RefreshToken.findOne({ token, isRevoked: false })
StoredToken(t) == tokens[t].state = "stored" /\ ~tokens[t].isRevoked

\* authController.refreshAccessToken (POST /api/auth/refresh, public);
\* verifyRefreshToken accepts a string generateRefreshToken signed, until it
\* expires
RefreshAccessToken(t) ==
  /\ lastOp' = IF /\ tokens[t].state # "none" /\ now < tokens[t].expiresAt
                  /\ StoredToken(t)
               THEN AuthResponse("refresh", tokens[t].userId, 200, t, TRUE)
               ELSE AuthResponse("refresh", "none", 401, t, FALSE)
  /\ UNCHANGED tokens
  /\ AuthFrame

\* authController.logout (POST /api/auth/logout, public):
\* RefreshToken.updateOne({ token }, { isRevoked: true })
Logout(t) ==
  /\ tokens' = [tokens EXCEPT ![t] =
                  IF @.state = "none" THEN @
                  ELSE [@ EXCEPT !.loggedOut = TRUE,
                                 !.isRevoked = (@ \/ tokens[t].state = "stored")]]
  /\ lastOp' = AuthResponse("logout", "none", 200, t, FALSE)
  /\ AuthFrame

\* authController.logoutAll (behind protect):
\* RefreshToken.updateMany({ userId, userModel, isRevoked: false }, { isRevoked: true })
LogoutAll(caller) ==
  /\ accounts[caller].exists
  /\ tokens' = [t \in TokenIds |->
                  IF tokens[t].state = "none" \/ tokens[t].userId # caller
                  THEN tokens[t]
                  ELSE [tokens[t] EXCEPT
                          !.loggedOut = TRUE,
                          !.isRevoked = (@ \/ tokens[t].state = "stored")]]
  /\ lastOp' = AuthResponse("logoutAll", caller, 200, 0, FALSE)
  /\ AuthFrame

\* the TTL index on expiresAt: the database deletes an expired document
TokenExpires(t) ==
  /\ tokens[t].state = "stored"
  /\ tokens[t].expiresAt <= now
  /\ tokens' = [tokens EXCEPT ![t].state = "deleted"]
  /\ UNCHANGED lastOp
  /\ AuthFrame

NextAuth ==
  \/ Tick
  \/ \E u \in Users : Login(u)
  \/ \E t \in TokenIds : RefreshAccessToken(t)
  \/ \E t \in TokenIds : Logout(t)
  \/ \E u \in Users : LogoutAll(u)
  \/ \E t \in TokenIds : TokenExpires(t)

SpecAuth == Init /\ [][NextAuth]_vars

\* ------------------------------------------- registration and approval
\* authController.register: User.create with approved: false, then
\* generateAccessToken, generateRefreshToken and saveRefreshToken
Register(u) ==
  /\ ~accounts[u].exists
  /\ \E t \in TokenIds : tokens[t].state = "none"
  /\ accounts' = [accounts EXCEPT ![u] =
                    [exists |-> TRUE, role |-> IF u \in Leads THEN "lead" ELSE "user",
                     approved |-> FALSE, isActive |-> TRUE, department |-> "d1"]]
  /\ tokens' = [tokens EXCEPT ![FreshToken] =
                  [state |-> "stored", userId |-> u, isRevoked |-> FALSE,
                   expiresAt |-> now + RefreshLifetime, loggedOut |-> FALSE]]
  /\ lastOp' = AuthResponse("register", u, 201, FreshToken, TRUE)
  /\ UNCHANGED <<project, modules, updates, stats, now, failures, inflight>>

\* userController.approveUser (admin): 404 without the user, 400 when approved
ApproveUser(u) ==
  /\ accounts[u].exists
  /\ ~accounts[u].approved
  /\ accounts' = [accounts EXCEPT ![u].approved = TRUE]
  /\ lastOp' = AuthResponse("approveUser", "admin", 200, 0, FALSE)
  /\ UNCHANGED <<project, modules, updates, stats, now, failures, inflight, tokens>>

\* userController.rejectUser (admin): the account is deactivated
RejectUser(u) ==
  /\ accounts[u].exists
  /\ accounts' = [accounts EXCEPT ![u].isActive = FALSE]
  /\ lastOp' = AuthResponse("rejectUser", "admin", 200, 0, FALSE)
  /\ UNCHANGED <<project, modules, updates, stats, now, failures, inflight, tokens>>

\* no User document yet
InitApproval ==
  /\ Init!1 /\ Init!2 /\ Init!3 /\ Init!4 /\ Init!5 /\ Init!6 /\ Init!7 /\ Init!8
  /\ accounts = [u \in Users |-> [StaffAccounts[u] EXCEPT !.exists = FALSE,
                                                          !.approved = FALSE]]
  /\ tokens = NoTokens

NextApproval ==
  \/ \E u \in Users : Register(u)
  \/ \E u \in Users : Login(u)
  \/ \E t \in TokenIds : RefreshAccessToken(t)
  \/ \E u \in Users : ApproveUser(u)
  \/ \E u \in Users : RejectUser(u)

SpecApproval == InitApproval /\ [][NextApproval]_vars

\* ----------------------------------- module saves served concurrently
\* document.save() of a copy loaded earlier: only the paths whose value the
\* request changed since it loaded the document are written
SaveModified(stored, loaded, local) ==
  [f \in DOMAIN stored |-> IF local[f] # loaded[f] THEN local[f] ELSE stored[f]]

\* the lead's updateModule up to the first database call of the module's save
\* hook: the module is saved with the submitted progress and the hook loads
\* the project (Project.findById) into the request's own copy
BeginModuleSave(r, caller, m, progress) ==
  /\ inflight[r].pc = "free"
  /\ \A q \in RequestIds : q < r => inflight[q].pc # "free"
  /\ RoleOf(caller) = "lead"
  /\ caller = project.assignedLead
  /\ modules[m].state = "live"
  /\ modules' = [modules EXCEPT ![m].progress = progress]
  /\ inflight' = [inflight EXCEPT ![r] =
                    [pc |-> "loaded", caller |-> caller, project |-> project]]
  /\ UNCHANGED <<project, updates, stats, now, lastOp, failures, accounts, tokens>>

\* the rest of the hook: calculateProgress on the request's copy of the
\* project (Module.find, the distribution and its saves) and project.save()
FinishModuleSave(r) ==
  /\ inflight[r].pc = "loaded"
  /\ \E res \in {CalculateProgress(inflight[r].project, modules, updates, stats,
                                   now, 0)} :
       /\ project' = SaveModified(project, inflight[r].project, res.project)
       /\ stats' = res.stats
  /\ lastOp' = Response("updateModule", inflight[r].caller, TRUE, 200, "none", None, 0)
  /\ inflight' = [inflight EXCEPT ![r] = FreeSlot]
  /\ UNCHANGED <<modules, updates, now, failures, accounts, tokens>>

NextOverlap ==
  \/ Tick
  \/ \E r \in RequestIds, c \in Leads, m \in ModuleIds, v \in {50, 100} :
        BeginModuleSave(r, c, m, v)
  \/ \E r \in RequestIds : FinishModuleSave(r)

SpecOverlap == InitProgress /\ [][NextOverlap]_vars

\* ------------------------- daily-update save hooks served concurrently
\* createDailyUpdate up to the first database call of the update's save hook:
\* the document is created and the hook reads the module's updates
\* (DailyUpdate.find) into the request's own list
CreateAndFindUpdates(r, user, m, hours, pct) ==
  /\ inflight[r].pc = "free"
  /\ \A q \in RequestIds : q < r => inflight[q].pc # "free"
  /\ Len(updates) < MaxUpdates
  /\ user \in Members
  /\ user \in SeqToSet(project.assignedUsers)
  /\ modules[m].state = "live"
  /\ ~ExistingUpdate(updates, user, m, now)
  /\ updates' = Append(updates, DailyUpdateDoc(user, m, now, hours, pct))
  /\ inflight' = [inflight EXCEPT ![r] =
                    [pc |-> "found", user |-> user, module |-> m,
                     update |-> Len(updates'), found |-> updates']]
  /\ UNCHANGED <<project, modules, stats, now, lastOp, failures, accounts, tokens>>

\* the rest of the hook: Module.findById, progress and actualTime from the
\* list read before, module.save() with its own hook, and the response
SaveModuleFromFound(r) ==
  /\ inflight[r].pc = "found"
  /\ LET m == inflight[r].module
         mods2 == [modules EXCEPT ![m] =
                     RecomputeModule(@, inflight[r].found, inflight[r].update, now)]
     IN \E res \in {ModulePostSave(project, mods2, updates, stats, now, 0)} :
          /\ modules' = mods2
          /\ project' = res.project
          /\ stats' = res.stats
          /\ lastOp' = Response("createDailyUpdate", inflight[r].user, TRUE, 201,
                                m, None, inflight[r].update)
  /\ inflight' = [inflight EXCEPT ![r] = FreeSlot]
  /\ UNCHANGED <<updates, now, failures, accounts, tokens>>

NextHooks ==
  \/ Tick
  \/ \E r \in RequestIds, u \in Members, m \in ModuleIds, h \in {1, 2} :
        CreateAndFindUpdates(r, u, m, h, 50)
  \/ \E r \in RequestIds : SaveModuleFromFound(r)

SpecHooks == InitDaily /\ [][NextHooks]_vars

\* ---------------------- distributions of different projects served concurrently
\* userStats.save() of a document loaded as `loaded` and changed to `local`:
\* pushed array elements are appended to the stored arrays, every other
\* modified path is set to the value of the local copy
SaveStatsDelta(stored, loaded, local) ==
  LET pushed(f) == SubSeq(local[f], Len(loaded[f]) + 1, Len(local[f]))
      months ==
        IF Len(local.monthlyStats) > Len(loaded.monthlyStats)
        THEN stored.monthlyStats \o pushed("monthlyStats")
        ELSE [i \in 1..Len(stored.monthlyStats) |->
                IF i <= Len(loaded.monthlyStats)
                THEN SaveModified(stored.monthlyStats[i], loaded.monthlyStats[i],
                                  local.monthlyStats[i])
                ELSE stored.monthlyStats[i]]
  IN [SaveModified(stored, loaded, local) EXCEPT
        !.projectHistory = stored.projectHistory \o pushed("projectHistory"),
        !.monthlyStats = months]

\* the distribution of project r reaches the award of user u: UserStats.findOne,
\* and UserStats.create when there is no record yet
FindUserStats(r, u, award) ==
  /\ inflight[r].pc = "free"
  /\ \A q \in RequestIds : q < r => inflight[q].pc # "free"
  /\ stats' = [stats EXCEPT ![u] = IF @.exists THEN @ ELSE NewUserStats]
  /\ inflight' = [inflight EXCEPT ![r] =
                    [pc |-> "loaded", user |-> u, loaded |-> stats'[u],
                     entry |-> [project |-> r, role |-> award.role,
                                pointsEarned |-> award.pointsEarned,
                                hoursWorked |-> award.hoursWorked,
                                completedAt |-> now]]]
  /\ UNCHANGED <<project, modules, updates, now, lastOp, failures, accounts, tokens>>

\* addProjectToHistory on the loaded copy and userStats.save(); a save that
\* sets a month bucket by position on a record pushed to since it was loaded
\* is a versioned write, which may be refused (VersionError)
SaveUserStats(r) ==
  /\ inflight[r].pc = "loaded"
  /\ LET u == inflight[r].user
         loaded == inflight[r].loaded
         local == AddProjectToHistory(loaded, inflight[r].entry, now)
         versioned == /\ MonthIndex(loaded.monthlyStats, MonthKey(now)) > 0
                      /\ stats[u] # loaded
     IN \/ /\ stats' = [stats EXCEPT ![u] = SaveStatsDelta(@, loaded, local)]
           /\ inflight' = [inflight EXCEPT ![r].pc = "done"]
           /\ lastOp' = Response("addProjectToHistory", u, TRUE, 200, "none", None, r)
        \/ /\ versioned
           /\ stats' = stats
           /\ inflight' = [inflight EXCEPT ![r].pc = "failed"]
           /\ lastOp' = Response("addProjectToHistory", u, FALSE, 500, "none", None, r)
  /\ UNCHANGED <<project, modules, updates, now, failures, accounts, tokens>>

\* the awarded users have no record yet, or one award of an earlier project
InitShared ==
  /\ Init!1 /\ Init!2 /\ Init!3
  /\ \E s \in {NoUserStats,
               AddProjectToHistory(NewUserStats,
                                   [project |-> 0, role |-> "member",
                                    pointsEarned |-> 24, hoursWorked |-> 5,
                                    completedAt |-> 1], 1)} :
        stats = [u \in Users |-> IF u \in {"l1", "u1"} THEN s ELSE NoUserStats]
  /\ Init!5 /\ Init!6 /\ Init!7 /\ Init!8 /\ Init!9 /\ Init!10

NextShared ==
  \/ NextMonth
  \/ \E r \in RequestIds, u \in {"l1", "u1"},
        award \in {[role |-> "lead", pointsEarned |-> 40, hoursWorked |-> 5],
                   [role |-> "member", pointsEarned |-> 24, hoursWorked |-> 3]} :
        FindUserStats(r, u, award)
  \/ \E r \in RequestIds : SaveUserStats(r)

SpecShared == InitShared /\ [][NextShared]_vars

\* ------------------------------------------------------------ properties
ModuleSaveOps == {"createModule", "updateModule"}

DailyUpdateOps == {"createDailyUpdate", "updateDailyUpdate"}

\* the last request saved a module (so the project was recomputed) and succeeded
Recomputed ==
  /\ lastOp.ok
  /\ \/ lastOp.op \in ModuleSaveOps
     \/ lastOp.op \in DailyUpdateOps /\ modules[lastOp.module].state = "live"

\* the mean of the live modules' progress rounds (halves up) to v
RoundsTo(mods, v) ==
  LET live == LiveModules(mods)
      n == Cardinality(live)
      sum == SumField(mods, live, "progress")
  IN n > 0 /\ 2 * n * v <= 2 * sum + n /\ 2 * sum + n < 2 * n * (v + 1)

HasAward(u) == stats[u].exists /\ Len(stats[u].projectHistory) >= 1

\* C1: once the project's pointsDistributed flag is true, no later request
\* (module save, daily update, recomputation) changes any UserStats record
C1_OneShotPoints == [][project.pointsDistributed => stats' = stats]_vars

\* the project was completed again, by a successful recomputation, after the
\* points had been distributed
C1_Witness ==
  /\ Recomputed
  /\ failures = 0
  /\ project.pointsDistributed
  /\ project.status = "completed"
  /\ \E u \in Users :
       /\ HasAward(u)
       /\ stats[u].projectHistory[1].completedAt < project.completedAt

\* C2: whatever happens (a failed distribution included), no user ever holds a
\* second projectHistory entry, hence a second award, for the project
C2_AtMostOneAward == \A u \in Users : Len(stats[u].projectHistory) <= 1

\* this step is a successful request whose module save left the mean of the
\* modules' progress rounding to 100 while the stored status was not completed
CompletingStep ==
  /\ now' = now
  /\ Recomputed'
  /\ RoundsTo(modules', 100)
  /\ project.status # "completed"

\* C3 (as claimed): when a request completes the project, on its return the
\* project is stored completed with completedAt and pointsDistributed set, and
\* the assigned lead's UserStats holds the projectHistory entry
C3_CascadeSynchronous ==
  [][CompletingStep =>
       /\ project'.status = "completed"
       /\ project'.completedAt # 0
       /\ project'.pointsDistributed
       /\ stats'[project'.assignedLead].exists
       /\ Len(stats'[project'.assignedLead].projectHistory) >= 1]_vars

\* C3 (amended): the same, the lead's entry being promised when the points had
\* not been distributed before the request
C3_CascadeSynchronousAmended ==
  [][CompletingStep =>
       /\ project'.status = "completed"
       /\ project'.completedAt # 0
       /\ project'.pointsDistributed
       /\ ~project.pointsDistributed =>
            /\ stats'[project'.assignedLead].exists
            /\ Len(stats'[project'.assignedLead].projectHistory) >= 1]_vars

\* a request has just completed the project and distributed its points
C3_Witness ==
  /\ Recomputed
  /\ project.status = "completed"
  /\ project.completedAt = now
  /\ project.pointsDistributed
  /\ HasAward(project.assignedLead)
  /\ stats[project.assignedLead].projectHistory[1].completedAt = now

\* C9: after a module is created, updated or deleted, the stored project equals
\* the aggregate over its current modules (progress 0 when none is left)
C9_ProjectTracksModules ==
  (lastOp.ok /\ lastOp.op \in ModuleSaveOps \cup {"deleteModule"}) =>
    LET live == LiveModules(modules)
    IN /\ project.totalEstimatedHours = SumField(modules, live, "estimatedTime")
       /\ project.totalActualHours = SumField(modules, live, "actualTime")
       /\ IF live = {} THEN project.progress = 0
          ELSE RoundsTo(modules, project.progress)

\* C10: once set, project.completedAt never changes
C10_CompletedAtSetOnce ==
  [][project.completedAt # 0 => project'.completedAt = project.completedAt]_vars


\* the stored update of module m with the greatest creation time is upds[i]
IsLatest(upds, m, i) ==
  /\ i \in 1..Len(upds)
  /\ upds[i].module = m
  /\ \A j \in (i + 1)..Len(upds) : upds[j].module # m

RECURSIVE HoursOf(_, _, _)
HoursOf(upds, m, n) ==
  IF n = 0 THEN 0
  ELSE HoursOf(upds, m, n - 1) + (IF upds[n].module = m THEN upds[n].hoursWorked ELSE 0)

\* the last request saved a daily update of a module that still exists
AfterDailyUpdate ==
  lastOp.op \in DailyUpdateOps /\ modules[lastOp.module].state = "live"

\* C4: right after a daily update is created or edited, module.progress is the
\* progressPercentage of the module's most recently created update
C4_LatestWins ==
  AfterDailyUpdate =>
    \E i \in 1..Len(updates) :
      /\ IsLatest(updates, lastOp.module, i)
      /\ modules[lastOp.module].progress = updates[i].progressPercentage

\* the older of two updates was edited last and reports 100, the newer one
\* reports 50: the module, completed before, is back at 50
C4_Witness ==
  /\ lastOp.op = "updateDailyUpdate"
  /\ lastOp.update = 1
  /\ Len(updates) >= 2
  /\ updates[1].module = lastOp.module
  /\ IsLatest(updates, lastOp.module, 2)
  /\ updates[1].progressPercentage = 100
  /\ updates[2].progressPercentage = 50
  /\ modules[lastOp.module].status = "completed"
  /\ modules[lastOp.module].progress = 50

\* C5: right after a daily update is created or edited, module.actualTime is
\* the sum of hoursWorked over all stored updates of the module
C5_ActualTimeIsSum ==
  AfterDailyUpdate =>
    modules[lastOp.module].actualTime = HoursOf(updates, lastOp.module, Len(updates))

\* an update was edited while the module has two updates with different hours
C5_Witness ==
  /\ lastOp.op = "updateDailyUpdate"
  /\ Len(updates) >= 2
  /\ updates[1].module = lastOp.module
  /\ updates[2].module = lastOp.module
  /\ updates[1].hoursWorked # updates[2].hoursWorked
  /\ modules[lastOp.module].actualTime = 3

\* this step saves a daily update of a module that exists
DailyUpdateStep ==
  /\ now' = now
  /\ AfterDailyUpdate'
  /\ <<updates, lastOp, modules>>' # <<updates, lastOp, modules>>

\* C6: the daily-update path derives the status: latest progress 100 and not
\* completed -> completed with endDate set; else latest progress > 0 and
\* pending -> in_progress with startDate set if unset; else nothing changes
C6_StatusDerivation ==
  [][DailyUpdateStep =>
       LET m == lastOp'.module
           pre == modules[m]
           post == modules'[m]
           latest == CHOOSE i \in 1..Len(updates') : IsLatest(updates', m, i)
           lp == updates'[latest].progressPercentage
       IN IF lp = 100 /\ pre.status # "completed"
          THEN /\ post.status = "completed"
               /\ post.endDate = now
               /\ post.startDate = pre.startDate
          ELSE IF lp > 0 /\ pre.status = "pending"
               THEN /\ post.status = "in_progress"
                    /\ post.startDate = (IF pre.startDate = 0 THEN now ELSE pre.startDate)
                    /\ post.endDate = pre.endDate
               ELSE /\ post.status = pre.status
                    /\ post.startDate = pre.startDate
                    /\ post.endDate = pre.endDate]_vars

\* a daily update reporting 50 has just left a blocked module blocked
C6_Witness ==
  /\ AfterDailyUpdate
  /\ modules[lastOp.module].status = "blocked"
  /\ modules[lastOp.module].progress = 50
  /\ modules[lastOp.module].endDate = 0


\* this step is a completed run of the project recomputation
RecalculationStep ==
  /\ now' = now
  /\ lastOp'.op = "calculateProgress"
  /\ lastOp'.ok

\* C7: a recomputation over a non-empty module set stores round(mean progress)
\* and the sums of estimatedTime and actualTime; over no modules it stores
\* progress 0 and leaves the status and the hour totals alone
C7_Aggregation ==
  [][RecalculationStep =>
       LET live == LiveModules(modules)
       IN IF live # {}
          THEN /\ RoundsTo(modules, project'.progress)
               /\ project'.totalEstimatedHours = SumField(modules, live, "estimatedTime")
               /\ project'.totalActualHours = SumField(modules, live, "actualTime")
          ELSE /\ project'.progress = 0
               /\ project'.status = project.status
               /\ project'.totalEstimatedHours = project.totalEstimatedHours
               /\ project'.totalActualHours = project.totalActualHours]_vars

\* the recomputation has run over modules at 50, 75 and 25: progress is 50
C7_Witness ==
  /\ lastOp.op = "calculateProgress"
  /\ lastOp.ok
  /\ modules["c1"].state = "live" /\ modules["c1"].progress = 50
  /\ modules["c2"].state = "live" /\ modules["c2"].progress = 75
  /\ modules["c3"].state = "live" /\ modules["c3"].progress = 25
  /\ project.progress = 50
  /\ project.totalEstimatedHours = 10
  /\ project.totalActualHours = 3

\* C8: after a completed recomputation, a second one over the same modules
\* (today or on any later day) stores the same project and changes no UserStats
C8_Idempotent ==
  (lastOp.op = "calculateProgress" /\ lastOp.ok) =>
    \A t \in now..(MaxTime + 1) :
      LET r == ModulePostSave(project, modules, updates, stats, t, 0)
      IN r.ok /\ r.project = project /\ r.stats = stats

\* a recomputation has run on a completed, awarded project on a later day
C8_Witness ==
  /\ lastOp.op = "calculateProgress"
  /\ lastOp.ok
  /\ project.status = "completed"
  /\ project.pointsDistributed
  /\ HasAward(project.assignedLead)
  /\ project.completedAt < now


\* the two handlers of PATCH /api/modules/:id/progress
ProgressOps == {"updateModuleProgress", "leadUpdateModuleProgress"}

\* this step is a direct progress update that found the module and its caller
\* authorised, submitting the value v
ProgressStep(v) ==
  /\ now' = now
  /\ lastOp'.op \in ProgressOps
  /\ lastOp'.submitted = Some(v)
  /\ lastOp'.code \notin {403, 404}

\* C11: over direct progress updates the stored progress never decreases; a
\* request whose new progress (the submitted value, brought into 0..100) is
\* lower than the stored progress is rejected with 400 and leaves the module
\* as it was
C11_MonotonicProgress ==
  [][\A v \in ProgressInputs :
       ProgressStep(v) =>
         LET m == lastOp'.module
             new == IF v > 100 THEN 100 ELSE IF v < 0 THEN 0 ELSE v
         IN /\ modules'[m].progress >= modules[m].progress
            /\ new < modules[m].progress =>
                 (lastOp'.code = 400 /\ modules'[m] = modules[m])]_vars

\* the last request was a direct progress update of a module that found its
\* caller authorised and submitted a progress value
AfterProgressUpdate ==
  /\ lastOp.op \in ProgressOps
  /\ lastOp.submitted # None
  /\ lastOp.code \notin {403, 404}
  /\ modules[lastOp.module].state = "live"

C13_StatusMatchesProgress ==
  (AfterProgressUpdate /\ lastOp.ok) =>
    LET mod == modules[lastOp.module]
    IN mod.status = (IF mod.progress = 0 THEN "pending"
                     ELSE IF mod.progress = 100 THEN "completed"
                     ELSE "in_progress")


\* the stored update i is of this user and module and dated on day t
SameSubmission(i, user, m, t) ==
  /\ updates[i].user = user
  /\ updates[i].module = m
  /\ updates[i].date = t

\* C14: a createDailyUpdate of a user who already has an update of the module
\* dated today answers 400 and changes no update, module, project or UserStats
C14_DuplicateRejected ==
  [][(/\ now' = now
      /\ lastOp'.op = "createDailyUpdate"
      /\ \E i \in 1..Len(updates) :
           SameSubmission(i, lastOp'.caller, lastOp'.module, now))
     => /\ lastOp'.code = 400
        /\ UNCHANGED <<updates, modules, project, stats>>]_vars

\* a second submission of the day has just been refused with 400
C14_Witness ==
  /\ lastOp.op = "createDailyUpdate"
  /\ lastOp.code = 400
  /\ \E i \in 1..Len(updates) : SameSubmission(i, lastOp.caller, lastOp.module, now)

\* C15: in every reachable state, concurrent submissions included, at most one
\* DailyUpdate exists per user, module and calendar day
C15_OnePerUserModuleDay ==
  \A i, j \in 1..Len(updates) :
    (i # j) => ~SameSubmission(i, updates[j].user, updates[j].module, updates[j].date)

\* C16: an update is changed only by its author on the day of its date: an
\* edit by another user answers 403, one on a later day 400, both leaving
\* updates, modules, project and UserStats as they were; an update whose day
\* has passed never changes
C16_EditOnlySameDayByAuthor ==
  [][\A i \in 1..Len(updates) :
       /\ updates[i].date < now => updates'[i] = updates[i]
       /\ (now' = now /\ lastOp'.op = "updateDailyUpdate" /\ lastOp'.update = i)
          => /\ lastOp'.caller # updates[i].user
                => (lastOp'.code = 403
                    /\ UNCHANGED <<updates, modules, project, stats>>)
             /\ (lastOp'.caller = updates[i].user /\ updates[i].date < now)
                => (lastOp'.code = 400
                    /\ UNCHANGED <<updates, modules, project, stats>>)]_vars

\* the author's edit of an update of an earlier day has just been refused
C16_Witness ==
  /\ lastOp.op = "updateDailyUpdate"
  /\ lastOp.code = 400
  /\ lastOp.update \in 1..Len(updates)
  /\ updates[lastOp.update].user = lastOp.caller
  /\ updates[lastOp.update].date < now


\* ------------------------------------------------ the shares of a distribution
\* this step is a run of the distribution that finished
DistributionStep == ~project.pointsDistributed /\ project'.pointsDistributed

\* the history entries of role role that this step gave to user u
NewEntries(u, role) ==
  LET old == stats[u].projectHistory
      new == stats'[u].projectHistory
  IN SelectSeq(SubSeq(new, Len(old) + 1, Len(new)), LAMBDA e : e.role = role)

\* the hours of user u over the first n daily updates, whatever their module
RECURSIVE ContributedHours(_, _)
ContributedHours(u, n) ==
  IF n = 0 THEN 0
  ELSE (IF updates[n].user = u THEN updates[n].hoursWorked ELSE 0)
       + ContributedHours(u, n - 1)

Contributors == {updates[i].user : i \in 1..Len(updates)}

RECURSIVE SumHours(_)
SumHours(S) ==
  IF S = {} THEN 0
  ELSE LET u == CHOOSE x \in S : TRUE
       IN ContributedHours(u, Len(updates)) + SumHours(S \ {u})

\* C17: a distribution gives every user with a daily update one member entry of
\* round((userHours / totalHours) * 0.6 * totalPoints) points, userHours being
\* the user's hours summed over all modules (0 points for 0 hours); it gives
\* no member entry to anyone else, and to nobody when the total hours are 0
C17_MemberShares ==
  [][DistributionStep =>
       LET tp == TotalPoints(project')
           total == SumHours(Contributors)
       IN \A u \in Users :
            LET got == NewEntries(u, "member")
                hours == ContributedHours(u, Len(updates))
            IN IF total > 0 /\ u \in Contributors
               THEN /\ Len(got) = 1
                    /\ got[1].hoursWorked = hours
                    /\ got[1].pointsEarned =
                         MathRound(3 * tp[1] * hours, 5 * tp[2] * total)
                    /\ (hours = 0 => got[1].pointsEarned = 0)
               ELSE got = <<>>]_vars

\* the pool of 60 was split over 60 and 40 hours worked on both modules:
\* 36 and 24 points
C17_Witness ==
  /\ project.pointsDistributed
  /\ project.basePoints = 100
  /\ project.totalEstimatedHours = project.totalActualHours
  /\ project.totalActualHours > 0
  /\ project.completedAt = project.deadline
  /\ ContributedHours("u1", Len(updates)) = 60
  /\ ContributedHours("u2", Len(updates)) = 40
  /\ \E i, j \in 1..Len(updates) :
       updates[i].user = "u1" /\ updates[j].user = "u1"
       /\ updates[i].module # updates[j].module
  /\ Len(stats["u1"].projectHistory) = 1
  /\ stats["u1"].projectHistory[1].role = "member"
  /\ stats["u1"].projectHistory[1].pointsEarned = 36
  /\ Len(stats["u2"].projectHistory) = 1
  /\ stats["u2"].projectHistory[1].pointsEarned = 24

\* C18: a distribution gives the lead stored on the project exactly one lead
\* entry, of round(0.4 * totalPoints) points with totalPoints = basePoints *
\* efficiencyMultiplier * deadlineMultiplier, and no lead entry to anyone else
C18_LeadShare ==
  [][DistributionStep =>
       LET p == project'
           e == EfficiencyMultiplier(p.totalEstimatedHours, p.totalActualHours)
           d == DeadlineMultiplier(p.completedAt, p.deadline)
       IN /\ p.assignedLead = project.assignedLead
          /\ \A u \in Users :
               LET got == NewEntries(u, "lead")
               IN IF u = p.assignedLead
                  THEN /\ Len(got) = 1
                       /\ got[1].pointsEarned =
                            MathRound(2 * p.basePoints * e[1] * d[1],
                                      5 * e[2] * d[2])
                  ELSE got = <<>>]_vars

\* the project was handed to l2 before it completed: l2 holds the lead entry
\* (40 of 100 points) and l1 holds none
C18_Witness ==
  /\ project.pointsDistributed
  /\ project.assignedLead = "l2"
  /\ project.totalEstimatedHours = 0
  /\ project.completedAt = project.deadline
  /\ Len(stats["l2"].projectHistory) = 1
  /\ stats["l2"].projectHistory[1].role = "lead"
  /\ stats["l2"].projectHistory[1].pointsEarned = 40
  /\ stats["l1"].projectHistory = <<>>

\* the points of the lead entry this step gave to the project's lead
LeadPointsGiven == NewEntries(project'.assignedLead, "lead")[1].pointsEarned

\* the distribution's efficiency multiplier for this project is num / den
EfficiencyIs(num, den) ==
  LET e == EfficiencyMultiplier(project'.totalEstimatedHours,
                                project'.totalActualHours)
  IN e[1] * den = e[2] * num

\* this step distributes for a project completed on its deadline with the
\* hour totals est and act
OnDeadlineStep(est, act) ==
  /\ DistributionStep
  /\ project'.completedAt = project'.deadline
  /\ project'.totalEstimatedHours = est
  /\ project'.totalActualHours = act

C20_DeadlineMultiplier ==
  [][DistributionStep =>
       LET d == DeadlineMultiplier(project'.completedAt, project'.deadline)
           n == project'.deadline - project'.completedAt
           early == 10 + (IF n < 5 THEN n ELSE 5)
           late == IF 20 + n > 10 THEN 20 + n ELSE 10
       IN /\ d[2] > 0
          /\ 2 * d[1] >= d[2] /\ 2 * d[1] <= 3 * d[2]
          /\ (n = 0) => d[1] = d[2]
          /\ (n > 0) => 10 * d[1] = early * d[2]
          /\ (n >= 30) => 2 * d[1] = 3 * d[2]
          /\ (n < 0) => 20 * d[1] = late * d[2]
          /\ (n <= 0 - 30) => 2 * d[1] = d[2]
          /\ (d[1] > d[2]) <=> (n > 0)
          /\ (d[1] < d[2]) <=> (n < 0)
          /\ EfficiencyIs(1, 1) =>
               LeadPointsGiven =
                 IF n > 0 THEN MathRound(40 * early, 10)
                 ELSE IF n < 0 THEN MathRound(40 * late, 20) ELSE 40]_vars

\* points were distributed 30 days before the deadline with efficiency 1: the
\* lead holds 60 of the 100 points
C20_Witness ==
  /\ project.pointsDistributed
  /\ project.deadline - project.completedAt = 30
  /\ project.totalEstimatedHours = project.totalActualHours
  /\ project.assignedLead = "l1"
  /\ Len(stats["l1"].projectHistory) = 1
  /\ stats["l1"].projectHistory[1].pointsEarned = 60

\* ------------------------------------------------ the totals of a UserStats
\* the sum of field f over the entries of a history or of the monthly buckets
SumOver(entries, f) == SumSeq([i \in 1..Len(entries) |-> entries[i][f]])

TotalsConsistent(s) ==
  /\ s.totalPoints = SumOver(s.projectHistory, "pointsEarned")
  /\ s.totalPoints = SumOver(s.monthlyStats, "pointsEarned")
  /\ s.totalHoursWorked = SumOver(s.projectHistory, "hoursWorked")
  /\ s.totalHoursWorked = SumOver(s.monthlyStats, "hoursWorked")

\* the record s2 extends the record s1
Extends(s1, s2) ==
  /\ Len(s2.projectHistory) >= Len(s1.projectHistory)
  /\ SubSeq(s2.projectHistory, 1, Len(s1.projectHistory)) = s1.projectHistory
  /\ s2.totalPoints >= s1.totalPoints
  /\ s2.totalHoursWorked >= s1.totalHoursWorked

\* C21: in every UserStats record totalPoints is the sum of pointsEarned over
\* projectHistory and over the monthly buckets, totalHoursWorked the sums of
\* hoursWorked; projectHistory only grows and no total ever decreases
C21_TotalsMatchHistory ==
  /\ [](\A u \in Users : TotalsConsistent(stats[u]))
  /\ [][\A u \in Users : Extends(stats[u], stats'[u])]_vars

\* a record holds three awards in two monthly buckets
C21_Witness ==
  /\ Len(stats["u1"].projectHistory) = 3
  /\ Len(stats["u1"].monthlyStats) = 2
  /\ stats["u1"].monthlyStats[1].projectsCompleted = 2
  /\ stats["u1"].totalPoints = 48

\* --------------------------------------------- membership of the project
\* the user id names an approved, active account of role user in department d
ValidMember(u, d) ==
  /\ u \in Users
  /\ accounts[u].exists
  /\ accounts[u].role = "user"
  /\ accounts[u].approved
  /\ accounts[u].isActive
  /\ accounts[u].department = d

\* C22: an assignUsersToProject request with an id that is missing, not of role
\* user, not approved, not active or of another department, or from a caller who
\* is not the project's lead, is rejected and leaves the project as it was; a
\* request that succeeds makes assignedUsers the old members and the submitted ids
C22_AssignAllOrNothing ==
  [][lastOp'.op = "assignUsers" =>
       LET ids == Val(lastOp'.submitted)
           flawed == \E i \in 1..Len(ids) : ~ValidMember(ids[i], project.department)
       IN /\ (flawed \/ lastOp'.caller # project.assignedLead) => ~lastOp'.ok
          /\ ~lastOp'.ok => lastOp'.code \in {400, 403, 404} /\ project' = project
          /\ lastOp'.ok =>
               /\ SeqToSet(project'.assignedUsers) =
                    SeqToSet(project.assignedUsers) \cup SeqToSet(ids)
               /\ SubSeq(project'.assignedUsers, 1, Len(project.assignedUsers)) =
                    project.assignedUsers
               /\ project' = [project EXCEPT !.assignedUsers = project'.assignedUsers]
          /\ UNCHANGED <<modules, accounts>>]_vars

\* the lead's request for u1 and the unapproved u2 was rejected: u1 was not added
C22_Witness ==
  /\ lastOp.op = "assignUsers"
  /\ lastOp.code = 400
  /\ lastOp.caller = project.assignedLead
  /\ lastOp.submitted = Some(<<"u1", "u2">>)
  /\ ValidMember("u1", project.department)
  /\ ~accounts["u2"].approved
  /\ "u1" \notin SeqToSet(project.assignedUsers)

\* C23: project.assignedUsers never holds a user twice
C23_NoDuplicateMembers ==
  Cardinality(SeqToSet(project.assignedUsers)) = Len(project.assignedUsers)

\* C24: the assignedUsers of every module are members of the project
C24_ModuleUsersInProject ==
  \A m \in LiveModules(modules) :
    SeqToSet(modules[m].assignedUsers) \subseteq SeqToSet(project.assignedUsers)

\* C25: whenever a request stores a lead on the project, that account is an
\* approved, active lead of the department the project has after the request
C25_LeadValidated ==
  [][project'.assignedLead # project.assignedLead =>
       LET lead == project'.assignedLead
       IN /\ lead \in Users
          /\ accounts[lead].exists
          /\ accounts[lead].role = "lead"
          /\ accounts[lead].approved
          /\ accounts[lead].isActive
          /\ accounts[lead].department = project'.department]_vars

\* ------------------------------------------------------- access to reads
\* C26: reading the project succeeds (200) exactly for an admin, the project's
\* own lead and a user who is a member; every other requester gets 403
C26_ProjectReadAccess ==
  (lastOp.op = "getProject" /\ ProjectExists) =>
    /\ (lastOp.code = 200) <=>
         LET c == lastOp.caller
         IN \/ RoleOf(c) = "admin"
            \/ RoleOf(c) = "lead" /\ project.assignedLead = c
            \/ RoleOf(c) = "user" /\ c \in SeqToSet(project.assignedUsers)
    /\ (lastOp.code # 200) => lastOp.code = 403

\* C27: a lead who asks for the modules of a project gets them with 200 when
\* the project's assigned lead, and 403 'Not authorized to view these modules'
\* otherwise
C27_ModulesOfOwnProject ==
  (lastOp.op = "getModulesByProject" /\ ProjectExists
     /\ RoleOf(lastOp.caller) = "lead") =>
    IF lastOp.caller = project.assignedLead
    THEN lastOp.code = 200 /\ lastOp.data = LiveModules(modules)
    ELSE /\ lastOp.code = 403
         /\ lastOp.message = "Not authorized to view these modules"
         /\ lastOp.data = {}

\* a lead who is not the project's lead asked for its two modules and got 403
C27_Witness ==
  /\ lastOp.op = "getModulesByProject"
  /\ RoleOf(lastOp.caller) = "lead"
  /\ lastOp.caller # project.assignedLead
  /\ lastOp.code = 403
  /\ Cardinality(LiveModules(modules)) = 2

\* C29: a direct progress update of an existing module is refused with 403
\* exactly when the caller is neither in the module's assignedUsers nor the
\* project's assigned lead, and a refused request leaves the module as it was
C29_ProgressUpdateAccess ==
  [][(lastOp'.op \in ProgressOps /\ modules[lastOp'.module].state = "live") =>
       LET c == lastOp'.caller
           m == lastOp'.module
           authorized == \/ c \in SeqToSet(modules[m].assignedUsers)
                         \/ c = project.assignedLead
       IN /\ (lastOp'.code = 403) <=> ~authorized
          /\ (lastOp'.code = 403) => modules' = modules]_vars

\* C28: when a user assigned to a module, who is not the project's lead,
\* updates it, the module's estimatedTime and assignedUsers and the project's
\* assignedUsers stay as they were: only progress-bearing fields change
C28_MemberUpdatesProgressOnly ==
  [][(/\ lastOp'.op = "updateModule"
      /\ RoleOf(lastOp'.caller) = "user"
      /\ lastOp'.caller # project.assignedLead) =>
       /\ \A m \in ModuleIds :
            /\ modules'[m].estimatedTime = modules[m].estimatedTime
            /\ modules'[m].assignedUsers = modules[m].assignedUsers
       /\ project'.assignedUsers = project.assignedUsers]_vars

\* ------------------------------------------------------- refresh tokens
\* C30: once a logout has named token T or its owner has logged out
\* everywhere, every refresh presenting T is answered 401 without an access
\* token; a stored token's isRevoked never returns to false; logout changes no
\* token but the one presented and logoutAll none of another principal
C30_RevocationPermanent ==
  [][/\ \A t \in TokenIds :
          /\ tokens[t].loggedOut => tokens'[t].loggedOut
          /\ (tokens[t].state = "stored" /\ tokens[t].isRevoked) =>
               /\ tokens'[t].state \in {"stored", "deleted"}
               /\ tokens'[t].isRevoked
          /\ (lastOp'.op = "refresh" /\ lastOp'.token = t
                /\ tokens[t].loggedOut) =>
               lastOp'.code = 401 /\ ~lastOp'.accessToken
     /\ (lastOp'.op = "logout" /\ lastOp' # lastOp) =>
          \A t \in TokenIds \ {lastOp'.token} : tokens'[t] = tokens[t]
     /\ (lastOp'.op = "logoutAll" /\ lastOp' # lastOp) =>
          \A t \in TokenIds :
            tokens[t].userId # lastOp'.caller => tokens'[t] = tokens[t]]_vars

\* a refresh with a revoked, unexpired token was answered 401 while another
\* principal's token is still usable
C30_Witness ==
  /\ lastOp.op = "refresh"
  /\ lastOp.code = 401
  /\ tokens[lastOp.token].state = "stored"
  /\ tokens[lastOp.token].isRevoked
  /\ now < tokens[lastOp.token].expiresAt
  /\ \E o \in TokenIds :
       /\ tokens[o].userId # tokens[lastOp.token].userId
       /\ StoredToken(o)

\* ------------------------------------------------ completion and failure
\* C34: a recomputation moves the project to completed only when every one of
\* its modules has progress 100
C34_CompletedOnlyAtFullProgress ==
  [][(/\ lastOp'.op = "calculateProgress"
      /\ project.status # "completed"
      /\ project'.status = "completed") =>
       \A m \in LiveModules(modules) : modules[m].progress = 100]_vars

\* C37: a createDailyUpdate that answers with an error because a later stage
\* of the cascade failed stores no DailyUpdate
C37_FailedSubmissionStoresNothing ==
  [][(/\ lastOp' # lastOp
      /\ lastOp'.op = "createDailyUpdate"
      /\ lastOp'.code = 500) => updates' = updates]_vars

\* C35: a module with status completed has progress 100, also after a later
\* daily update that reports a lower percentage
C35_CompletedModuleAtFullProgress ==
  \A m \in ModuleIds :
    (modules[m].state = "live" /\ modules[m].status = "completed") =>
      modules[m].progress = 100

\* C36: with no request in progress and no failed distribution, a project
\* whose progress is 100 and whose status is completed has had its points
\* distributed
C36_CompletedProjectIsAwarded ==
  (/\ failures = 0
   /\ inflight = NoRequests
   /\ project.progress = 100
   /\ project.status = "completed") => project.pointsDistributed

\* C38: register, login and refresh issue an access token or a refresh token
\* only to a user whose approved flag is true when the token is issued
C38_TokensOnlyForApproved ==
  [][(/\ lastOp' # lastOp
      /\ lastOp'.op \in {"register", "login", "refresh"}
      /\ lastOp'.accessToken) => accounts'[lastOp'.caller].approved]_vars

\* ------------------------------------------------- overlapping requests
\* C31: pointsDistributed is checked on the copy a recomputation loaded and
\* set afterwards: a user who holds an entry for the project is given a
\* second one exactly by a recomputation that loaded the project with
\* pointsDistributed = false and finishes after another one has set it, so
\* two overlapping module saves can award the same user twice
C31_PointsGuardRace ==
  [][\A u \in Users :
       (/\ Len(stats[u].projectHistory) >= 1
        /\ Len(stats'[u].projectHistory) > Len(stats[u].projectHistory)) =>
         \E r \in RequestIds :
           /\ inflight[r].pc = "loaded"
           /\ inflight'[r].pc = "free"
           /\ ~inflight[r].project.pointsDistributed
           /\ project.pointsDistributed]_vars

\* both module saves have finished and the lead holds two entries and twice
\* the points for the one project
C31_Witness ==
  /\ inflight = NoRequests
  /\ project.pointsDistributed
  /\ Len(stats["l1"].projectHistory) = 2
  /\ stats["l1"].projectHistory[1] = stats["l1"].projectHistory[2]
  /\ stats["l1"].totalPoints = 2 * stats["l1"].projectHistory[1].pointsEarned
  /\ stats["l1"].totalPoints > 0

\* C32: the save hook of a daily update stores as module.actualTime the sum of
\* the hours in the list it read before loading the module; the module is left
\* below the sum over its stored updates exactly when another update of the
\* module was stored after that read, so of two overlapping submissions one
\* can be lost
C32_LostUpdate ==
  [][\A r \in RequestIds :
       (inflight[r].pc = "found" /\ inflight'[r].pc = "free") =>
         LET m == inflight[r].module
         IN /\ modules'[m].actualTime = TotalHours(inflight[r].found, m)
            /\ (modules'[m].actualTime < TotalHours(updates, m)) <=>
                 (Len(ModuleUpdates(inflight[r].found, m))
                    < Len(ModuleUpdates(updates, m)))]_vars

\* both submissions for m1 have finished and m1 carries fewer hours than its
\* two stored updates add up to
C32_Witness ==
  /\ inflight = NoRequests
  /\ Len(ModuleUpdates(updates, "m1")) = 2
  /\ lastOp.op = "createDailyUpdate"
  /\ modules["m1"].actualTime < TotalHours(updates, "m1")

\* C33: when the distributions of two different projects have both saved their
\* award of the same user, the user's projectHistory holds the entry of each
\* project and totalPoints is the sum of the points of the entries
C33_NoAwardLost ==
  \A r1, r2 \in RequestIds :
    (/\ r1 # r2
     /\ inflight[r1].pc = "done" /\ inflight[r2].pc = "done"
     /\ inflight[r1].user = inflight[r2].user) =>
      LET s == stats[inflight[r1].user]
      IN /\ \A r \in {r1, r2} :
              \E i \in 1..Len(s.projectHistory) :
                s.projectHistory[i] = inflight[r].entry
         /\ s.totalPoints = SumOver(s.projectHistory, "pointsEarned")

====
